---- MODULE Spec2Model ----
(***************************************************************************)
(* The CollabWish JSON API (Backend/src/index.js): an in-memory store of   *)
(* users, lists, items, reactions and suggestions, mutated by the HTTP     *)
(* handlers, saved to data/store.json by a debounce timer and reloaded at  *)
(* boot.  Time is counted in ticks of 200 ms.  Arrays of the store are sequences, in the order the code keeps   *)
(* them.  Identifiers made by uuidv4() are the numbers 1, 2, 3, ... in the *)
(* order they are drawn, so that an identifier is never drawn twice.       *)
(* The Socket.IO side is the rooms of each connection and what has been    *)
(* sent to it; a callback of the event loop is one action.                 *)
(*                                                                         *)
(* Left out of the records: email and profilePictureUrl of users (always   *)
(* null) and the fields of a product other than its id (no handler reads   *)
(* them except to copy them into a response).                              *)
(***************************************************************************)
EXTENDS Naturals, Integers, Sequences, FiniteSets, TLC

(* ------------------------------ bounds -------------------------------- *)
\* number of identifiers uuidv4() hands out in one behaviour
MaxIds == 4
\* last instant of the clock read by nowISO()
MaxTime == 1
\* number of events sent to one connection in one behaviour
MaxInbox == 2
\* last instant of the behaviours that watch the save timer run out
MaxHorizon == 4
\* number of writes of data/store.json in flight at once
MaxWrites == 2
\* number of responses on their way to the page at once
MaxFlight == 2

\* an id that uuidv4() never returned (a request may name any string)
NoId == 0
Phones == {"9000000001", "9000000002"}
OnePhone == {"9000000001"}
\* fails LoginBody: z.string().min(5)
ShortPhone == "123"
LoginNames == {"Asha"}
Kinds == {"LIKE", "DISLIKE"}
\* bodies of POST /items/:itemId/react: the two kinds and one that is neither
KindInputs == Kinds \cup {"LOVE"}
\* ids of the products of data/seed.json
products == {7}
\* req.body.productId: one that is no number (NaN under Number(), refused by z.number()),
\* zero, a catalog id, an unknown id
NotANumber == -1
ProductInputs == {NotANumber, 0, 7, 8}
\* names sent to POST /lists, as sequences of characters
ListNameInputs == {<< >>, <<" ">>, <<"G">>, <<" ", "G">>}
\* visibility sent to POST /lists: absent, two of the enum, one outside of it
NoVisibility == "undefined"
VisibilityEnum == {"PRIVATE", "LINK", "PUBLIC"}
VisibilityInputs == {NoVisibility, "PRIVATE", "SECRET"}
\* participantPhoneNumbers sent to POST /lists (absent is the empty array)
PhoneLists == UNION {[1..n -> Phones] : n \in 0..2}
\* the real-time connections a behaviour opens (a reconnection is a new connection)
Conns == {1, 2}
\* the token of a handshake: absent, one that jwt.verify refuses, or the uid of a
\* token /auth/login signed
NoToken == 0
BadToken == -1

VARIABLES
    store,      \* the in-memory store: users, products, shopLists, shopListItems,
                \* reactions, suggestions
    saveTimer,  \* TRUE while the timeout saveTimer refers to is pending (FALSE: null, or
                \* a timeout that has fired)
    timers,     \* the pending timeouts of setTimeout: the instant each is due
    unsaved,    \* <<t>> when the oldest mutation no write has picked up was made at t
    writes,     \* the fs.writeFile calls of saveStore in flight: the text each writes
    disk,       \* the data directory: the files store.json (snapshot) and seed.json
    running,    \* FALSE once the process has exited
    issued,     \* what uuidv4() has returned so far: issued[i] is the kind of entity id i names
    tokens,     \* the user ids for which /auth/login signed a token
    now,        \* the clock nowISO() reads
    res,        \* the response of the last request: [status, body]
    emitted,    \* the events the last request published: <<[room, event, payload], ...>>
    loaded,     \* FALSE while store is null: loadStore() has not resolved yet
    pending,    \* the continuations the event loop has still to run: <<[op, id, room, rest], ...>>
    sockets,    \* the real-time connections: [state, userId, rooms, inbox] of each
    client      \* the page of the React client: [activeListId, items] of useAppData, the
                \* request it awaits the handler of (calling), the responses on their
                \* way back to it (http), and how many events of its socket it has handled

vars == <<store, saveTimer, timers, unsaved, writes, disk, running, issued, tokens, now,
          res, emitted, loaded, pending, sockets, client>>

(* --------------------------- array helpers ---------------------------- *)
Range(s) == {s[i] : i \in DOMAIN s}
\* Array.prototype.includes
Includes(s, x) == \E i \in DOMAIN s : s[i] = x
\* Array.prototype.push / unshift
Push(s, x) == Append(s, x)
Unshift(s, x) == <<x>> \o s
\* Array.prototype.splice(idx, 1)
Splice(s, idx) == [i \in 1..(Len(s) - 1) |-> IF i < idx THEN s[i] ELSE s[i + 1]]
\* number of occurrences of x in s
Count(s, x) == Cardinality({i \in DOMAIN s : s[i] = x})

\* String.prototype.trim on a sequence of characters
RECURSIVE TrimStart(_)
TrimStart(s) == IF s # << >> /\ Head(s) = " " THEN TrimStart(Tail(s)) ELSE s
RECURSIVE TrimEnd(_)
TrimEnd(s) ==
    IF s # << >> /\ s[Len(s)] = " " THEN TrimEnd(SubSeq(s, 1, Len(s) - 1)) ELSE s
Trim(s) == TrimEnd(TrimStart(s))

\* `User ${ph.slice(-4)}`
FallbackName(ph) == IF ph = "9000000001" THEN "User 0001" ELSE "User 0002"

(* ------------------------------ the store ----------------------------- *)
defaultData ==
    [users |-> << >>, products |-> << >>, shopLists |-> << >>, shopListItems |-> << >>,
     reactions |-> << >>, suggestions |-> << >>]

\* data/seed.json as shipped: the catalog, and no user or list yet
seedData == [defaultData EXCEPT !.products = [k \in 1..Cardinality(products) |->
                [id |-> CHOOSE p \in products : Cardinality({q \in products : q < p}) = k - 1]]]

(* ------------------------- JSON text and files ------------------------ *)
\* what JSON.parse gives for a key the text does not have
Undefined == <<"undefined">>

\* faulty variant: a collection that is empty is left out of the text
Stringify_DropsEmpty(st) ==
    SelectSeq(<<<<"users", st.users>>, <<"products", st.products>>,
                <<"shopLists", st.shopLists>>, <<"shopListItems", st.shopListItems>>,
                <<"reactions", st.reactions>>, <<"suggestions", st.suggestions>>>>,
              LAMBDA kv : kv[2] # << >>)

\* JSON.stringify(store, null, 2): the keys of the object in their order, each with
\* its array (an array is written element by element, an empty one as [])
Stringify(st) ==
    <<<<"users", st.users>>, <<"products", st.products>>,
      <<"shopLists", st.shopLists>>, <<"shopListItems", st.shopListItems>>,
      <<"reactions", st.reactions>>, <<"suggestions", st.suggestions>>>>

\* the value of a key of the parsed object
Member(doc, key) ==
    IF \E k \in DOMAIN doc : doc[k][1] = key
    THEN doc[CHOOSE k \in DOMAIN doc : doc[k][1] = key][2]
    ELSE Undefined

\* JSON.parse(buf), read as the handlers read it
Parse(doc) ==
    [users |-> Member(doc, "users"), products |-> Member(doc, "products"),
     shopLists |-> Member(doc, "shopLists"), shopListItems |-> Member(doc, "shopListItems"),
     reactions |-> Member(doc, "reactions"), suggestions |-> Member(doc, "suggestions")]

\* a file of the data directory: not there, JSON text, or text JSON.parse throws on
\* (a write that was cut short)
NoFile == [state |-> "absent", doc |-> << >>]
CorruptFile == [state |-> "corrupt", doc |-> << >>]
JsonFile(doc) == [state |-> "json", doc |-> doc]

\* The data directory when the process first boots: as cloned (seed.json only), after
\* `npm run reset` (store.json a copy of seed.json), or without either file.
InitialDisks ==
    {[snapshot |-> NoFile, seed |-> JsonFile(Stringify(seedData))],
     [snapshot |-> JsonFile(Stringify(seedData)), seed |-> JsonFile(Stringify(seedData))],
     [snapshot |-> NoFile, seed |-> NoFile]}

\* loadStore(): store.json when it reads and parses; on any failure seed.json, or
\* defaultData when that fails too, written to store.json before it is returned
loadStore(d) ==
    IF d.snapshot.state = "json"
    THEN [store |-> Parse(d.snapshot.doc), disk |-> d]
    ELSE LET seed == IF d.seed.state = "json" THEN Parse(d.seed.doc) ELSE defaultData
         IN  [store |-> seed, disk |-> [d EXCEPT !.snapshot = JsonFile(Stringify(seed))]]

\* store.users.findIndex(x => x.phoneNumber === ph), 0 when there is none
UserIndexByPhone(users, ph) ==
    IF \E i \in DOMAIN users : users[i].phoneNumber = ph
    THEN CHOOSE i \in DOMAIN users :
            /\ users[i].phoneNumber = ph
            /\ \A j \in 1..(i - 1) : users[j].phoneNumber # ph
    ELSE 0
\* store.users.findIndex(x => x.id === id), 0 when there is none
UserIndexById(users, id) ==
    IF \E i \in DOMAIN users : users[i].id = id
    THEN CHOOSE i \in DOMAIN users :
            /\ users[i].id = id
            /\ \A j \in 1..(i - 1) : users[j].id # id
    ELSE 0
\* store.shopLists.findIndex(l => l.id === id), 0 when there is none
ListIndex(lists, id) ==
    IF \E i \in DOMAIN lists : lists[i].id = id
    THEN CHOOSE i \in DOMAIN lists :
            /\ lists[i].id = id
            /\ \A j \in 1..(i - 1) : lists[j].id # id
    ELSE 0
\* store.shopListItems.findIndex(i => i.id === id), 0 when there is none
ItemIndex(items, id) ==
    IF \E i \in DOMAIN items : items[i].id = id
    THEN CHOOSE i \in DOMAIN items :
            /\ items[i].id = id
            /\ \A j \in 1..(i - 1) : items[j].id # id
    ELSE 0

\* ids uuidv4() has returned for entities of one kind, live or deleted since
IssuedIds(kind) == {i \in DOMAIN issued : issued[i] = kind}
\* the ids a request can name for an entity of one kind.  A handler only looks an id
\* up by equality, so that an id deleted since stands for every id that names nothing.
NameableIds(kind) == IssuedIds(kind) \cup {NoId}

newUser(id, phoneNumber, name, t) ==
    [id |-> id, phoneNumber |-> phoneNumber, name |-> name, createdAt |-> t,
     updatedAt |-> t, shopListIds |-> << >>]

listCounts(st, listId) ==
    [items |-> Len(SelectSeq(st.shopListItems, LAMBDA i : i.shopListId = listId)),
     participants |->
        IF ListIndex(st.shopLists, listId) = 0 THEN 0
        ELSE Len(st.shopLists[ListIndex(st.shopLists, listId)].participantIds)]

(* ------------------------------ sockets ------------------------------- *)
\* a connection before its handshake
NewSocket == [state |-> "new", userId |-> NoToken, rooms |-> {}, inbox |-> << >>]

\* faulty variant: io.emit, to every connected socket whatever its rooms
Deliver_ToAll(socks, events) ==
    [c \in DOMAIN socks |->
        IF socks[c].state = "active"
        THEN [socks[c] EXCEPT !.inbox = @ \o events]
        ELSE socks[c]]

\* faulty variant: what is emitted overtakes what was sent before
Deliver_Overtakes(socks, events) ==
    [c \in DOMAIN socks |->
        IF socks[c].state = "active"
        THEN [socks[c] EXCEPT
                !.inbox = SelectSeq(events, LAMBDA e : e.room \in socks[c].rooms) \o @]
        ELSE socks[c]]

\* io.to(room).emit(event, payload), for the events of one request in the order they
\* are emitted: each goes to the connected sockets that are in its room
Deliver(socks, events) ==
    [c \in DOMAIN socks |->
        IF socks[c].state = "active"
        THEN [socks[c] EXCEPT
                !.inbox = @ \o SelectSeq(events, LAMBDA e : e.room \in socks[c].rooms)]
        ELSE socks[c]]

(* ------------------------------ the page ------------------------------ *)
\* the connection of the page: socketRef.current
socketRef == 1
\* _likes and _dislikes of an item no reaction event or response has set
NoCount == -1
\* the page awaits no handler
NoCall == [op |-> "none"]
\* useAppData before any list is opened
NewPage == [activeListId |-> NoId, items |-> << >>, calling |-> NoCall, http |-> << >>,
            read |-> 0]

\* api(): the response of a handler goes back to the page when the request was the
\* page's; on one that is not ok api() throws and its caller sets nothing
Answer(page, r) ==
    IF page.calling.op = "none"
    THEN page
    ELSE [page EXCEPT
            !.calling = NoCall,
            !.http = IF r.status \in {200, 201}
                     THEN Append(@, [call |-> page.calling, body |-> r.body])
                     ELSE @]

(* ------------------------------- Init --------------------------------- *)
\* server.listen's callback has called loadStore() and awaits it
ListenContinuation == [op |-> "listen", id |-> NoId, room |-> NoId, rest |-> << >>]

\* The server listens: the store is still null (the value of store is not read until
\* loaded), no timer, no connection.
Init ==
    /\ store = defaultData
    /\ disk \in InitialDisks
    /\ saveTimer = FALSE
    /\ timers = << >>
    /\ unsaved = << >>
    /\ writes = << >>
    /\ running = TRUE
    /\ issued = << >>
    /\ tokens = {}
    /\ now = 0
    /\ res = [status |-> 0, body |-> [error |-> "no request yet"]]
    /\ emitted = << >>
    /\ loaded = FALSE
    /\ pending = <<ListenContinuation>>
    /\ sockets = [c \in Conns |-> NewSocket]
    /\ client = NewPage

(* ------------------------------ the clock ----------------------------- *)
\* setTimeout(..., 400): the delay of the save timer, in ticks
Debounce == 2

\* One tick passes.  A timeout that is due runs before the clock moves on.
Tick ==
    /\ \A k \in DOMAIN timers : timers[k] > now
    /\ now' = now + 1
    /\ UNCHANGED <<store, saveTimer, timers, unsaved, writes, disk, running>>
    /\ UNCHANGED <<issued, tokens, res, emitted, loaded, pending, sockets, client>>

\* faulty variant: the timeout set before is not cleared
Rearm_NoClear(ts, live, t) == Append(ts, t + Debounce)

\* if (saveTimer) clearTimeout(saveTimer); setTimeout(..., 400): the pending
\* timeouts afterwards (saveTimer refers to the one set last)
Rearm(ts, live, t) ==
    Append(IF live THEN SubSeq(ts, 1, Len(ts) - 1) ELSE ts, t + Debounce)

\* scheduleSave(), called by a handler that has changed the store
scheduleSave ==
    /\ timers' = Rearm(timers, saveTimer, now)
    /\ saveTimer' = TRUE
    /\ unsaved' = IF unsaved = << >> THEN <<now>> ELSE unsaved

\* a handler runs in the process; what every handler leaves alone, the delivery of
\* what it emits, and of its response when the page awaits it
Frame ==
    /\ running
    /\ UNCHANGED <<writes, disk, running, now, loaded, pending>>
    /\ sockets' = Deliver(sockets, emitted')
    /\ client' = Answer(client, res')

\* faulty variant: the handler calls scheduleSave() before it returns
Reject_Schedules(status, error) ==
    /\ res' = [status |-> status, body |-> [error |-> error]]
    /\ emitted' = << >>
    /\ scheduleSave
    /\ UNCHANGED <<store, issued, tokens>>
    /\ running
    /\ UNCHANGED <<writes, disk, running, now, client, loaded, pending, sockets>>

\* a handler that returns before it touches anything (400, 401, 404), or that throws
\* on reading the store while it is null (express answers 500)
Reject(status, error) ==
    /\ res' = [status |-> status, body |-> [error |-> error]]
    /\ emitted' = << >>
    /\ UNCHANGED <<store, saveTimer, timers, unsaved, issued, tokens>>
    /\ Frame

(* ------------------------------- auth --------------------------------- *)
\* a request to an endpoint behind auth() without a token, or with one that does not verify
AuthReject ==
    \E error \in {"No token", "Invalid token"} : Reject(401, error)

(* --------------------------- POST /auth/login ------------------------- *)
LoginStore(st, phoneNumber, name, id, t) ==
    LET idx == UserIndexByPhone(st.users, phoneNumber) IN
    IF idx = 0
    THEN [st EXCEPT !.users = Push(@, newUser(id, phoneNumber, name, t))]
    ELSE IF st.users[idx].name # name
         THEN [st EXCEPT !.users[idx].name = name, !.users[idx].updatedAt = t]
         ELSE st

Login(phoneNumber, name) ==
    IF phoneNumber = ShortPhone \/ name = ""
    THEN Reject(400, "ZodError")
    ELSE IF ~loaded
    THEN Reject(500, "TypeError")
    ELSE
        LET idx == UserIndexByPhone(store.users, phoneNumber)
            id == Len(issued) + 1
            uid == IF idx = 0 THEN id ELSE store.users[idx].id
        IN
        /\ store' = LoginStore(store, phoneNumber, name, id, now)
        /\ issued' = IF idx = 0 THEN Append(issued, "user") ELSE issued
        /\ scheduleSave
        /\ tokens' = tokens \cup {uid}
        /\ res' = [status |-> 200,
                   body |-> [token |-> uid,
                             user |-> store'.users[UserIndexByPhone(store'.users, phoneNumber)]]]
        /\ emitted' = << >>
        /\ Frame

(* ----------------------------- POST /lists ---------------------------- *)
\* CreateListBody.safeParse: name of one character at least, visibility absent or of the enum
CreateListBodyOk(name, visibility) ==
    /\ Len(name) >= 1
    /\ visibility \in VisibilityEnum \cup {NoVisibility}

\* findOrCreateUserByPhone: the users afterwards (a new user takes id)
findOrCreateUserByPhone(users, phoneNumber, nameFallback, id, t) ==
    IF UserIndexByPhone(users, phoneNumber) = 0
    THEN Push(users, newUser(id, phoneNumber, nameFallback, t))
    ELSE users

\* faulty variant: the user's id is pushed to participantIds whether it is there or not
AddParticipant_NoIncludes(acc, ph, listId, t) ==
    LET users1 == findOrCreateUserByPhone(acc.users, ph, FallbackName(ph), acc.nextId, t)
        created == Len(users1) > Len(acc.users)
        idx == UserIndexByPhone(users1, ph)
        u == users1[idx]
    IN
    [users |->
        IF Includes(u.shopListIds, listId) THEN users1
        ELSE [users1 EXCEPT ![idx].shopListIds = Push(@, listId)],
     participantIds |-> Push(acc.participantIds, u.id),
     addedUserIds |-> Push(acc.addedUserIds, u.id),
     nextId |-> IF created THEN acc.nextId + 1 ELSE acc.nextId]

\* one round of the loop over participantPhoneNumbers; acc is
\* [users, participantIds, addedUserIds, nextId]
AddParticipant(acc, ph, listId, t) ==
    LET users1 == findOrCreateUserByPhone(acc.users, ph, FallbackName(ph), acc.nextId, t)
        created == Len(users1) > Len(acc.users)
        idx == UserIndexByPhone(users1, ph)
        u == users1[idx]
    IN
    [users |->
        IF Includes(u.shopListIds, listId) THEN users1
        ELSE [users1 EXCEPT ![idx].shopListIds = Push(@, listId)],
     participantIds |->
        IF Includes(acc.participantIds, u.id) THEN acc.participantIds
        ELSE Push(acc.participantIds, u.id),
     addedUserIds |-> Push(acc.addedUserIds, u.id),
     nextId |-> IF created THEN acc.nextId + 1 ELSE acc.nextId]

RECURSIVE AddParticipants(_, _, _, _)
AddParticipants(acc, phones, listId, t) ==
    IF phones = << >> THEN acc
    ELSE AddParticipants(AddParticipant(acc, Head(phones), listId, t), Tail(phones), listId, t)

\* faulty variant: the owner is not pushed to participantIds
OwnerJoined_NoOwner(users, ownerId, listId) ==
    LET me == UserIndexById(users, ownerId) IN
    [users |->
        IF me # 0 /\ ~Includes(users[me].shopListIds, listId)
        THEN [users EXCEPT ![me].shopListIds = Push(@, listId)]
        ELSE users,
     participantIds |-> << >>,
     addedUserIds |-> << >>,
     nextId |-> listId + 1]

\* the owner's side of the new list: participantIds and the owner's shopListIds
OwnerJoined(users, ownerId, listId) ==
    LET me == UserIndexById(users, ownerId) IN
    [users |->
        IF me # 0 /\ ~Includes(users[me].shopListIds, listId)
        THEN [users EXCEPT ![me].shopListIds = Push(@, listId)]
        ELSE users,
     participantIds |-> <<ownerId>>,
     addedUserIds |-> << >>,
     nextId |-> listId + 1]

\* the handler's effect: [store, list, addedUserIds, nextId]
CreateListStore(st, ownerId, name, visibility, phones, listId, t) ==
    LET acc == AddParticipants(OwnerJoined(st.users, ownerId, listId), phones, listId, t)
        list == [id |-> listId,
                 name |-> Trim(name),
                 visibility |-> IF visibility = NoVisibility THEN "LINK" ELSE visibility,
                 ownerId |-> ownerId,
                 createdAt |-> t,
                 updatedAt |-> t,
                 participantIds |-> acc.participantIds]
    IN
    [store |-> [st EXCEPT !.users = acc.users, !.shopLists = Unshift(@, list)],
     list |-> list,
     addedUserIds |-> acc.addedUserIds,
     nextId |-> acc.nextId]

CreateList(ownerId, name, visibility, phones) ==
    IF ~CreateListBodyOk(name, visibility)
    THEN Reject(400, "ZodError")
    ELSE IF ~loaded
    THEN Reject(500, "TypeError")
    ELSE
        LET listId == Len(issued) + 1
            made == CreateListStore(store, ownerId, name, visibility, phones, listId, now)
            payload == [list |-> made.list, count |-> listCounts(made.store, listId)]
        IN
        /\ store' = made.store
        /\ issued' = issued \o <<"list">> \o
                        [i \in 1..(made.nextId - listId - 1) |-> "user"]
        /\ scheduleSave
        /\ emitted' =
              <<[room |-> <<"user", ownerId>>, event |-> "wishlist:list_created",
                 payload |-> payload]>>
              \o [i \in DOMAIN made.addedUserIds |->
                    [room |-> <<"user", made.addedUserIds[i]>>,
                     event |-> "wishlist:list_created", payload |-> payload]]
        /\ res' = [status |-> 201, body |-> payload]
        /\ UNCHANGED tokens
        /\ Frame

(* -------------------------- DELETE /lists/:id ------------------------- *)
\* faulty variant: the reactions of the deleted list's items stay
DeleteListStore_KeepReactions(st, id) ==
    LET items == SelectSeq(st.shopListItems, LAMBDA i : i.shopListId # id)
        live(itemId) == \E k \in DOMAIN items : items[k].id = itemId
    IN
    [users |->
        [k \in DOMAIN st.users |->
            [st.users[k] EXCEPT !.shopListIds = SelectSeq(@, LAMBDA lid : lid # id)]],
     products |-> st.products,
     shopLists |-> SelectSeq(st.shopLists, LAMBDA x : x.id # id),
     shopListItems |-> items,
     reactions |-> st.reactions,
     suggestions |-> SelectSeq(st.suggestions, LAMBDA s : live(s.itemId))]

DeleteListStore(st, id) ==
    LET items == SelectSeq(st.shopListItems, LAMBDA i : i.shopListId # id)
        live(itemId) == \E k \in DOMAIN items : items[k].id = itemId
    IN
    [users |->
        [k \in DOMAIN st.users |->
            [st.users[k] EXCEPT !.shopListIds = SelectSeq(@, LAMBDA lid : lid # id)]],
     products |-> st.products,
     shopLists |-> SelectSeq(st.shopLists, LAMBDA x : x.id # id),
     shopListItems |-> items,
     reactions |-> SelectSeq(st.reactions, LAMBDA r : live(r.itemId)),
     suggestions |-> SelectSeq(st.suggestions, LAMBDA s : live(s.itemId))]

DeleteList(userId, id) ==
    IF ~loaded
    THEN Reject(500, "TypeError")
    ELSE IF ListIndex(store.shopLists, id) = 0
    THEN Reject(404, "list not found")
    ELSE
        /\ store' = DeleteListStore(store, id)
        /\ scheduleSave
        /\ emitted' = <<[room |-> <<"list", id>>, event |-> "wishlist:list_deleted",
                         payload |-> [id |-> id]]>>
        /\ res' = [status |-> 200, body |-> [ok |-> TRUE]]
        /\ UNCHANGED <<issued, tokens>>
        /\ Frame

(* ------------------------- POST /lists/:id/join ----------------------- *)
\* faulty variant: the user is pushed without looking whether it is a participant already
JoinListStore_AlwaysPush(st, userId, listId, t) ==
    LET l == ListIndex(st.shopLists, listId)
        u == UserIndexById(st.users, userId)
        lists1 == [st.shopLists EXCEPT ![l].participantIds = Push(@, userId)]
    IN
    [st EXCEPT
        !.shopLists = [lists1 EXCEPT ![l].updatedAt = t],
        !.users = IF u # 0 /\ ~Includes(st.users[u].shopListIds, listId)
                  THEN [@ EXCEPT ![u].shopListIds = Push(@, listId)]
                  ELSE @]

JoinListStore(st, userId, listId, t) ==
    LET l == ListIndex(st.shopLists, listId)
        u == UserIndexById(st.users, userId)
        lists1 == IF Includes(st.shopLists[l].participantIds, userId) THEN st.shopLists
                  ELSE [st.shopLists EXCEPT ![l].participantIds = Push(@, userId)]
    IN
    [st EXCEPT
        !.shopLists = [lists1 EXCEPT ![l].updatedAt = t],
        !.users = IF u # 0 /\ ~Includes(st.users[u].shopListIds, listId)
                  THEN [@ EXCEPT ![u].shopListIds = Push(@, listId)]
                  ELSE @]

JoinList(userId, listId) ==
    IF ~loaded
    THEN Reject(500, "TypeError")
    ELSE IF ListIndex(store.shopLists, listId) = 0
    THEN Reject(404, "list not found")
    ELSE
        LET st == JoinListStore(store, userId, listId, now) IN
        /\ store' = st
        /\ scheduleSave
        /\ emitted' = <<[room |-> <<"list", listId>>, event |-> "wishlist:participant_joined",
                         payload |-> [userId |-> userId, listId |-> listId]]>>
        /\ res' = [status |-> 200,
                   body |-> [list |-> st.shopLists[ListIndex(st.shopLists, listId)],
                             count |-> listCounts(st, listId)]]
        /\ UNCHANGED <<issued, tokens>>
        /\ Frame

(* ------------------------------ enrichItem ---------------------------- *)
\* store.products.find(p => p.id === id) || null, as the product's id or "null"
findProduct(st, id) ==
    IF \E k \in DOMAIN st.products : st.products[k].id = id
    THEN st.products[CHOOSE k \in DOMAIN st.products : st.products[k].id = id]
    ELSE "null"
\* faulty variant: any number is taken for the id of a product
HasProduct_Any(st, id) == TRUE
\* store.products.find(p => p.id === id) is not undefined
HasProduct(st, id) == \E k \in DOMAIN st.products : st.products[k].id = id

enrichItem(st, i) ==
    [item |-> i,
     product |-> findProduct(st, i.productId),
     reactions |-> SelectSeq(st.reactions, LAMBDA r : r.itemId = i.id),
     suggestions |->
        LET own == SelectSeq(st.suggestions, LAMBDA s : s.itemId = i.id) IN
        [k \in DOMAIN own |->
            [suggestion |-> own[k],
             product |-> findProduct(st, own[k].suggestedProductId),
             byUser |-> IF UserIndexById(st.users, own[k].byUserId) = 0 THEN "null"
                        ELSE st.users[UserIndexById(st.users, own[k].byUserId)]]]]

(* ------------------------- POST /lists/:id/items ---------------------- *)
AddItemStore(st, item) == [st EXCEPT !.shopListItems = Unshift(@, item)]

AddItem(userId, listId, productId) ==
    IF productId = NotANumber \/ productId = 0
    THEN Reject(400, "productId required")
    ELSE IF ~loaded
    THEN Reject(500, "TypeError")
    ELSE IF ~HasProduct(store, productId)
    THEN Reject(404, "product not found")
    ELSE
        LET item == [id |-> Len(issued) + 1, productId |-> productId, shopListId |-> listId,
                     addedByUserId |-> userId, addedAt |-> now]
            st == AddItemStore(store, item)
            payload == enrichItem(st, item)
        IN
        /\ store' = st
        /\ issued' = Append(issued, "item")
        /\ scheduleSave
        /\ emitted' = <<[room |-> <<"list", listId>>, event |-> "wishlist:item_added",
                         payload |-> payload]>>
        /\ res' = [status |-> 201, body |-> payload]
        /\ UNCHANGED tokens
        /\ Frame

(* ------------------------- DELETE /items/:itemId ---------------------- *)
\* faulty variant: the suggestions on the removed item stay
RemoveItemStore_KeepSuggestions(st, id) ==
    [st EXCEPT
        !.shopListItems = SelectSeq(@, LAMBDA i : i.id # id),
        !.reactions = SelectSeq(@, LAMBDA r : r.itemId # id)]

RemoveItemStore(st, id) ==
    [st EXCEPT
        !.shopListItems = SelectSeq(@, LAMBDA i : i.id # id),
        !.reactions = SelectSeq(@, LAMBDA r : r.itemId # id),
        !.suggestions = SelectSeq(@, LAMBDA s : s.itemId # id)]

RemoveItem(userId, id) ==
    IF ~loaded
    THEN Reject(500, "TypeError")
    ELSE IF ItemIndex(store.shopListItems, id) = 0
    THEN Reject(404, "item not found")
    ELSE
        LET item == store.shopListItems[ItemIndex(store.shopListItems, id)] IN
        /\ store' = RemoveItemStore(store, id)
        /\ scheduleSave
        /\ emitted' = <<[room |-> <<"list", item.shopListId>>,
                         event |-> "wishlist:item_removed", payload |-> [id |-> id]]>>
        /\ res' = [status |-> 200, body |-> [ok |-> TRUE]]
        /\ UNCHANGED <<issued, tokens>>
        /\ Frame

(* ----------------------- POST /items/:itemId/react -------------------- *)
\* faulty variant: the reaction is looked up by the item alone, whoever made it
ReactionIndex_AnyUser(reactions, userId, itemId) ==
    IF \E i \in DOMAIN reactions : reactions[i].itemId = itemId
    THEN CHOOSE i \in DOMAIN reactions :
            /\ reactions[i].itemId = itemId
            /\ \A j \in 1..(i - 1) : reactions[j].itemId # itemId
    ELSE 0

\* store.reactions.findIndex(r => r.userId === userId && r.itemId === itemId), 0 for none
ReactionIndex(reactions, userId, itemId) ==
    IF \E i \in DOMAIN reactions : reactions[i].userId = userId /\ reactions[i].itemId = itemId
    THEN CHOOSE i \in DOMAIN reactions :
            /\ reactions[i].userId = userId /\ reactions[i].itemId = itemId
            /\ \A j \in 1..(i - 1) :
                  ~(reactions[j].userId = userId /\ reactions[j].itemId = itemId)
    ELSE 0

\* faulty variant: the same kind again leaves the reaction in place
ToggleReaction_NoToggleOff(reactions, userId, itemId, kind) ==
    LET idx == ReactionIndex(reactions, userId, itemId) IN
    IF idx > 0
    THEN [reactions EXCEPT ![idx].kind = kind]
    ELSE Push(reactions, [userId |-> userId, itemId |-> itemId, kind |-> kind])

\* faulty variant: a changed kind is pushed as a second reaction
ToggleReaction_PushOnChange(reactions, userId, itemId, kind) ==
    LET idx == ReactionIndex(reactions, userId, itemId) IN
    IF idx > 0 /\ reactions[idx].kind = kind
    THEN Splice(reactions, idx)
    ELSE Push(reactions, [userId |-> userId, itemId |-> itemId, kind |-> kind])

ToggleReaction(reactions, userId, itemId, kind) ==
    LET idx == ReactionIndex(reactions, userId, itemId) IN
    IF idx > 0 /\ reactions[idx].kind = kind
    THEN Splice(reactions, idx)
    ELSE IF idx > 0
    THEN [reactions EXCEPT ![idx].kind = kind]
    ELSE Push(reactions, [userId |-> userId, itemId |-> itemId, kind |-> kind])

\* faulty variant: every reaction on the item is counted, whatever its kind
CountKind_AnyKind(reactions, itemId, kind) ==
    Len(SelectSeq(reactions, LAMBDA r : r.itemId = itemId))

\* store.reactions.filter(r => r.itemId === itemId && r.kind === kind).length
CountKind(reactions, itemId, kind) ==
    Len(SelectSeq(reactions, LAMBDA r : r.itemId = itemId /\ r.kind = kind))

React(userId, itemId, kind) ==
    IF kind \notin Kinds
    THEN Reject(400, "ZodError")
    ELSE IF ~loaded
    THEN Reject(500, "TypeError")
    ELSE
        LET reactions == ToggleReaction(store.reactions, userId, itemId, kind)
            payload == [itemId |-> itemId,
                        likes |-> CountKind(reactions, itemId, "LIKE"),
                        dislikes |-> CountKind(reactions, itemId, "DISLIKE")]
            idx == ItemIndex(store.shopListItems, itemId)
        IN
        /\ store' = [store EXCEPT !.reactions = reactions]
        /\ scheduleSave
        /\ emitted' =
              IF idx = 0 THEN << >>
              ELSE <<[room |-> <<"list", store.shopListItems[idx].shopListId>>,
                      event |-> "wishlist:item_reacted", payload |-> payload]>>
        /\ res' = [status |-> 200, body |-> payload]
        /\ UNCHANGED <<issued, tokens>>
        /\ Frame

(* ---------------------- POST /items/:itemId/suggest ------------------- *)
SuggestStore(st, sg) == [st EXCEPT !.suggestions = Push(@, sg)]

Suggest(byUserId, itemId, productId) ==
    IF productId = NotANumber
    THEN Reject(400, "ZodError")
    ELSE IF ~loaded
    THEN Reject(500, "TypeError")
    ELSE IF ~HasProduct(store, productId)
    THEN Reject(404, "product not found")
    ELSE
        LET sg == [id |-> Len(issued) + 1, itemId |-> itemId,
                   suggestedProductId |-> productId, byUserId |-> byUserId, ts |-> now]
            st == SuggestStore(store, sg)
            payload == [suggestion |-> sg,
                        product |-> findProduct(store, productId),
                        byUser |-> IF UserIndexById(st.users, byUserId) = 0 THEN "null"
                                   ELSE st.users[UserIndexById(st.users, byUserId)]]
            idx == ItemIndex(st.shopListItems, itemId)
        IN
        /\ store' = st
        /\ issued' = Append(issued, "suggestion")
        /\ scheduleSave
        /\ emitted' =
              IF idx = 0 THEN << >>
              ELSE <<[room |-> <<"list", st.shopListItems[idx].shopListId>>,
                      event |-> "wishlist:item_suggested", payload |-> payload]>>
        /\ res' = [status |-> 201, body |-> payload]
        /\ UNCHANGED tokens
        /\ Frame

(* ------------------------------ GET /lists ---------------------------- *)
\* the lists userId participates in, each with its counts
GetLists(userId) ==
    IF ~loaded
    THEN Reject(500, "TypeError")
    ELSE
        LET lists == SelectSeq(store.shopLists, LAMBDA l : Includes(l.participantIds, userId)) IN
        /\ res' = [status |-> 200,
                   body |-> [lists |-> [k \in DOMAIN lists |->
                                [list |-> lists[k], count |-> listCounts(store, lists[k].id)]]]]
        /\ emitted' = << >>
        /\ UNCHANGED <<store, saveTimer, timers, unsaved, issued, tokens>>
        /\ Frame

(* ------------------------- GET /lists/:id/items ----------------------- *)
\* The orders .sort((a, b) => (a.addedAt < b.addedAt ? 1 : -1)) can leave the items
\* in: later addedAt first; the comparator never answers 0, so that the order of
\* items of the same addedAt is the engine's choice.
SortedByAddedAt(items) ==
    {[k \in DOMAIN items |-> items[f[k]]] :
        f \in {g \in Permutations(DOMAIN items) :
                  \A a, b \in DOMAIN items :
                      a < b => items[g[a]].addedAt >= items[g[b]].addedAt}}

GetItems(userId, listId) ==
    IF ~loaded
    THEN Reject(500, "TypeError")
    ELSE
        \E items \in SortedByAddedAt(SelectSeq(store.shopListItems,
                                               LAMBDA i : i.shopListId = listId)) :
            /\ res' = [status |-> 200,
                       body |-> [items |-> [k \in DOMAIN items |-> enrichItem(store, items[k])]]]
            /\ emitted' = << >>
            /\ UNCHANGED <<store, saveTimer, timers, unsaved, issued, tokens>>
            /\ Frame

(* ------------------------------ Socket.IO ----------------------------- *)
\* faulty variant: the rooms of the lists the user owns
HandshakeRooms_Owned(st, uid) ==
    {<<"user", uid>>} \cup
    {<<"list", st.shopLists[k].id>> :
        k \in {n \in DOMAIN st.shopLists : st.shopLists[n].ownerId = uid}}

\* the rooms io.use joins a socket to: the user's own and one for every list whose
\* participantIds includes the user
HandshakeRooms(st, uid) ==
    {<<"user", uid>>} \cup
    {<<"list", st.shopLists[k].id>> :
        k \in {n \in DOMAIN st.shopLists : Includes(st.shopLists[n].participantIds, uid)}}

\* What io.use leaves of a socket.  Without a token, or with one jwt.verify refuses,
\* next(error) is called before any join.  With a token that verifies while store is
\* null, the socket has joined its user's room when store.shopLists throws, and the
\* catch calls next(error) without leaving it: whether the refused socket is taken
\* out of the room is up to the socket.io release in use.
HandshakeOutcomes(token) ==
    IF token = NoToken \/ token = BadToken
    THEN {[NewSocket EXCEPT !.state = "closed"]}
    ELSE IF ~loaded
    THEN {[state |-> "closed", userId |-> token, rooms |-> rooms, inbox |-> << >>] :
             rooms \in {{}, {<<"user", token>>}}}
    ELSE {[state |-> "active", userId |-> token, rooms |-> HandshakeRooms(store, token),
           inbox |-> << >>]}

\* io.use: the handshake of connection c
Handshake(c, token) ==
    /\ sockets[c].state = "new"
    /\ \E socket \in HandshakeOutcomes(token) : sockets' = [sockets EXCEPT ![c] = socket]
    /\ running
    /\ UNCHANGED <<store, saveTimer, timers, unsaved, writes, disk, running>>
    /\ UNCHANGED <<issued, tokens, now, client, res, emitted, loaded, pending>>

\* faulty variant: the socket is told it has joined and is left out of the room
JoinListRoom_AckOnly(c, listId) ==
    /\ sockets[c].state = "active"
    /\ sockets' = [sockets EXCEPT
          ![c].inbox = Append(@, [room |-> <<"socket", c>>, event |-> "joined_list",
                                  payload |-> [listId |-> listId]])]
    /\ running
    /\ UNCHANGED <<store, saveTimer, timers, unsaved, writes, disk, running>>
    /\ UNCHANGED <<issued, tokens, now, client, res, emitted, loaded, pending>>

\* socket.on("join_list"): the socket joins the room and is told so
JoinListRoom(c, listId) ==
    /\ sockets[c].state = "active"
    /\ sockets' = [sockets EXCEPT
          ![c].rooms = @ \cup {<<"list", listId>>},
          ![c].inbox = Append(@, [room |-> <<"socket", c>>, event |-> "joined_list",
                                  payload |-> [listId |-> listId]])]
    /\ running
    /\ UNCHANGED <<store, saveTimer, timers, unsaved, writes, disk, running>>
    /\ UNCHANGED <<issued, tokens, now, client, res, emitted, loaded, pending>>

\* socket.on("leave_list")
LeaveListRoom(c, listId) ==
    /\ sockets[c].state = "active"
    /\ sockets' = [sockets EXCEPT ![c].rooms = @ \ {<<"list", listId>>}]
    /\ running
    /\ UNCHANGED <<store, saveTimer, timers, unsaved, writes, disk, running>>
    /\ UNCHANGED <<issued, tokens, now, client, res, emitted, loaded, pending>>

\* the client goes away: socket.io takes the socket out of every room
Disconnect(c) ==
    /\ sockets[c].state = "active"
    /\ sockets' = [sockets EXCEPT ![c].state = "closed", ![c].rooms = {}]
    /\ running
    /\ UNCHANGED <<store, saveTimer, timers, unsaved, writes, disk, running>>
    /\ UNCHANGED <<issued, tokens, now, client, res, emitted, loaded, pending>>

(* --------------------- the cascades, edit by edit --------------------- *)
\* The two handlers that edit several collections, as the event loop runs them: a
\* handler is a sequence of segments, a segment the edits the handler makes without
\* awaiting; a segment runs to completion, and between two segments of a handler any
\* other callback can run.

\* faulty variant: the handler awaits once the items are removed
DeleteListSegments_AwaitsAfterItems ==
    << <<"shopListItems">>, <<"reactions", "suggestions", "shopLists", "users">> >>

\* DELETE /lists/:id assigns the five collections in this order and awaits nowhere
DeleteListSegments ==
    << <<"shopListItems", "reactions", "suggestions", "shopLists", "users">> >>

\* DELETE /items/:itemId assigns three collections and awaits nowhere
RemoveItemSegments ==
    << <<"shopListItems", "reactions", "suggestions">> >>

\* one assignment of a cascade
CascadeStep(st, op, step, id) ==
    IF op = "deleteList"
    THEN CASE step = "shopListItems" ->
                [st EXCEPT !.shopListItems = SelectSeq(@, LAMBDA i : i.shopListId # id)]
           [] step = "reactions" ->
                [st EXCEPT !.reactions =
                    SelectSeq(@, LAMBDA r : ItemIndex(st.shopListItems, r.itemId) # 0)]
           [] step = "suggestions" ->
                [st EXCEPT !.suggestions =
                    SelectSeq(@, LAMBDA g : ItemIndex(st.shopListItems, g.itemId) # 0)]
           [] step = "shopLists" ->
                [st EXCEPT !.shopLists = SelectSeq(@, LAMBDA x : x.id # id)]
           [] step = "users" ->
                [st EXCEPT !.users =
                    [k \in DOMAIN @ |->
                        [@[k] EXCEPT !.shopListIds = SelectSeq(@, LAMBDA lid : lid # id)]]]
    ELSE CASE step = "shopListItems" ->
                [st EXCEPT !.shopListItems = SelectSeq(@, LAMBDA i : i.id # id)]
           [] step = "reactions" ->
                [st EXCEPT !.reactions = SelectSeq(@, LAMBDA r : r.itemId # id)]
           [] step = "suggestions" ->
                [st EXCEPT !.suggestions = SelectSeq(@, LAMBDA g : g.itemId # id)]

RECURSIVE RunSegment(_, _, _, _)
RunSegment(st, op, steps, id) ==
    IF steps = << >> THEN st
    ELSE RunSegment(CascadeStep(st, op, Head(steps), id), op, Tail(steps), id)

\* The next segment of a cascade.  After the last one the handler calls
\* scheduleSave(), emits and answers; before, it leaves its continuation with the
\* event loop (others are the continuations of other callbacks).
RunTask(op, id, room, segments, others) ==
    /\ store' = RunSegment(store, op, Head(segments), id)
    /\ IF Len(segments) = 1
       THEN /\ scheduleSave
            /\ emitted' =
                  <<[room |-> <<"list", room>>,
                     event |-> IF op = "deleteList" THEN "wishlist:list_deleted"
                               ELSE "wishlist:item_removed",
                     payload |-> [id |-> id]]>>
            /\ res' = [status |-> 200, body |-> [ok |-> TRUE]]
            /\ pending' = others
       ELSE /\ emitted' = << >>
            /\ pending' = Append(others, [op |-> op, id |-> id, room |-> room,
                                          rest |-> Tail(segments)])
            /\ UNCHANGED <<saveTimer, timers, unsaved, res>>
    /\ sockets' = Deliver(sockets, emitted')
    /\ running
    /\ UNCHANGED <<issued, tokens, writes, disk, running, now, client, loaded>>

\* DELETE /lists/:id
DeleteListTask(userId, id) ==
    IF ~loaded
    THEN Reject(500, "TypeError")
    ELSE IF ListIndex(store.shopLists, id) = 0
    THEN Reject(404, "list not found")
    ELSE RunTask("deleteList", id, id, DeleteListSegments, pending)

\* DELETE /items/:itemId
RemoveItemTask(userId, id) ==
    IF ~loaded
    THEN Reject(500, "TypeError")
    ELSE IF ItemIndex(store.shopListItems, id) = 0
    THEN Reject(404, "item not found")
    ELSE RunTask("removeItem", id,
                 store.shopListItems[ItemIndex(store.shopListItems, id)].shopListId,
                 RemoveItemSegments, pending)

(* ------------------------- the save timer, boot ----------------------- *)
\* A timeout set by scheduleSave() is due and runs: saveStore(store) turns the whole
\* store, as it is now, into text and hands it to fs.writeFile, which has not
\* written it yet when the callback returns.
SaveTimerFires ==
    /\ running
    /\ \E k \in DOMAIN timers :
        /\ timers[k] <= now
        /\ timers' = [i \in 1..(Len(timers) - 1) |-> IF i < k THEN timers[i] ELSE timers[i + 1]]
        /\ saveTimer' = (saveTimer /\ k # Len(timers))
    /\ writes' = Append(writes, Stringify(store))
    /\ unsaved' = << >>
    /\ UNCHANGED <<store, disk, running, issued, tokens, now, client, res, emitted>>
    /\ UNCHANGED <<loaded, pending, sockets>>

\* the writes in flight without the k-th
Settle(ws, k) == [i \in 1..(Len(ws) - 1) |-> IF i < k THEN ws[i] ELSE ws[i + 1]]

\* A write in flight completes: store.json holds its text.  Writes in flight at the
\* same time are not ordered by anything: any of them may complete first.
WriteCompletes ==
    /\ running
    /\ \E k \in DOMAIN writes :
        /\ disk' = [disk EXCEPT !.snapshot = JsonFile(writes[k])]
        /\ writes' = Settle(writes, k)
    /\ UNCHANGED <<store, saveTimer, timers, unsaved, running, issued, tokens, now, client>>
    /\ UNCHANGED <<res, emitted, loaded, pending, sockets>>

\* what store.json may hold when the process stops with the writes ws in flight:
\* what it held, a text cut short, or the whole text of one of them
Interrupted(d, ws) ==
    IF ws = << >>
    THEN {d}
    ELSE {d, [d EXCEPT !.snapshot = CorruptFile]}
            \cup {[d EXCEPT !.snapshot = JsonFile(ws[k])] : k \in DOMAIN ws}

\* the process is gone: its memory, its timeouts and its connections with it
Exited ==
    /\ store' = defaultData
    /\ loaded' = FALSE
    /\ saveTimer' = FALSE
    /\ timers' = << >>
    /\ unsaved' = << >>
    /\ writes' = << >>
    /\ res' = [status |-> 0, body |-> [error |-> "no request yet"]]
    /\ emitted' = << >>
    /\ sockets' = [c \in Conns |-> NewSocket]
    /\ UNCHANGED <<issued, tokens, now, client>>

\* A write in flight fails (the file cannot be opened, or the disk fills while it is
\* written): the promise of saveStore(store) rejects and nothing handles it.  Node
\* from version 15 on ends the process on an unhandled rejection; older versions
\* print a warning and go on.
WriteFails ==
    /\ running
    /\ \E k \in DOMAIN writes, cut \in BOOLEAN, exits \in BOOLEAN :
        LET d == IF cut THEN [disk EXCEPT !.snapshot = CorruptFile] ELSE disk IN
        IF exits
        THEN /\ disk' \in Interrupted(d, Settle(writes, k))
             /\ running' = FALSE
             /\ pending' = << >>
             /\ Exited
        ELSE /\ disk' = d
             /\ writes' = Settle(writes, k)
             /\ UNCHANGED <<store, saveTimer, timers, unsaved, running, issued, tokens>>
             /\ UNCHANGED <<now, client, res, emitted, loaded, pending, sockets>>

\* The event loop runs the continuation of an awaited promise: that of
\* server.listen's callback, store = await loadStore(), or the rest of a handler.
RunContinuation ==
    /\ running
    /\ pending # << >>
    /\ LET k == Head(pending) IN
       IF k.op = "listen"
       THEN /\ store' = loadStore(disk).store
            /\ disk' = loadStore(disk).disk
            /\ loaded' = TRUE
            /\ pending' = Tail(pending)
            /\ UNCHANGED <<saveTimer, timers, unsaved, writes, running>>
            /\ UNCHANGED <<issued, tokens, now, client, res, emitted, sockets>>
       ELSE RunTask(k.op, k.id, k.room, k.rest, Tail(pending))

\* The process is started, after it has been stopped if it was running (a crash, a
\* redeploy), up to listening: the store is null until loadStore() has resolved.
\* The tokens signed before stay valid (auth() only verifies the signature), and
\* uuidv4() never returns an id again.
Restart ==
    /\ disk' \in Interrupted(disk, writes)
    /\ running' = TRUE
    /\ pending' = <<ListenContinuation>>
    /\ Exited

(* --------------------------- the React client ------------------------- *)
\* the user the page is logged in as: the token its socket was opened with
PageUser == sockets[socketRef].userId

\* what the server leaves alone while the page handles something
ServerIdle ==
    /\ UNCHANGED <<store, saveTimer, timers, unsaved, writes, disk, running>>
    /\ UNCHANGED <<issued, tokens, now, res, emitted, loaded, pending, sockets>>

\* an item as the page holds it: what the server sent, and _likes and _dislikes
PageItem(it) ==
    [item |-> it.item, product |-> it.product, reactions |-> it.reactions,
     suggestions |-> it.suggestions, likes |-> NoCount, dislikes |-> NoCount]

\* prev.findIndex((x) => x.id === id), counted from 1 (0: not found)
PageItemIndex(items, id) ==
    IF \E k \in DOMAIN items : items[k].item.id = id
    THEN CHOOSE k \in DOMAIN items :
            /\ items[k].item.id = id
            /\ \A j \in DOMAIN items : items[j].item.id = id => k <= j
    ELSE 0

\* upsertItem: [it, ...prev] when the page does not hold the item, otherwise
\* { ...prev[i], ...it } in its place
upsertItem(items, it) ==
    LET i == PageItemIndex(items, it.item.id) IN
    IF i = 0
    THEN <<PageItem(it)>> \o items
    ELSE [items EXCEPT ![i] = [@ EXCEPT !.item = it.item, !.product = it.product,
                                        !.reactions = it.reactions,
                                        !.suggestions = it.suggestions]]

\* removeItem: prev.filter((x) => x.id !== id)
removeItem(items, id) == SelectSeq(items, LAMBDA x : x.item.id # id)

\* onItemReacted, and what toggleReaction does with its response
setCounts(items, itemId, payload) ==
    [k \in DOMAIN items |->
        IF items[k].item.id = itemId
        THEN [items[k] EXCEPT !.likes = payload.likes, !.dislikes = payload.dislikes]
        ELSE items[k]]

\* onItemSuggested, and what addSuggestion does with its response
appendSuggestion(items, itemId, sg) ==
    [k \in DOMAIN items |->
        IF items[k].item.id = itemId
        THEN [items[k] EXCEPT !.suggestions = Append(@, sg)]
        ELSE items[k]]

\* the listener of the socket for event e (an event without a listener is dropped)
Handled(page, e) ==
    CASE e.event = "wishlist:item_added" ->
            IF e.payload.item.shopListId = page.activeListId
            THEN [page EXCEPT !.items = upsertItem(@, e.payload)]
            ELSE page
      [] e.event = "wishlist:item_removed" ->
            [page EXCEPT !.items = removeItem(@, e.payload.id)]
      [] e.event = "wishlist:item_reacted" ->
            [page EXCEPT !.items = setCounts(@, e.payload.itemId, e.payload)]
      [] e.event = "wishlist:item_suggested" ->
            [page EXCEPT !.items = appendSuggestion(@, e.payload.suggestion.itemId, e.payload)]
      [] e.event = "wishlist:list_deleted" ->
            IF e.payload.id = page.activeListId
            THEN [page EXCEPT !.activeListId = NoId, !.items = << >>]
            ELSE page
      [] OTHER -> page

\* the page handles the next event of its socket
Receive ==
    /\ client.read < Len(sockets[socketRef].inbox)
    /\ client' = [Handled(client, sockets[socketRef].inbox[client.read + 1])
                    EXCEPT !.read = @ + 1]
    /\ ServerIdle

\* what the caller of api() does with the response r
Resolved(page, r) ==
    CASE r.call.op = "items" ->
            [page EXCEPT !.items = [k \in DOMAIN r.body.items |-> PageItem(r.body.items[k])]]
      [] r.call.op = "addItem" ->
            IF r.call.listId = r.call.activeListId
            THEN [page EXCEPT !.items = upsertItem(@, r.body)]
            ELSE page
      [] r.call.op = "removeItem" ->
            [page EXCEPT !.items = removeItem(@, r.call.itemId)]
      [] r.call.op = "toggleReaction" ->
            [page EXCEPT !.items = setCounts(@, r.call.itemId, r.body)]
      [] r.call.op = "addSuggestion" ->
            [page EXCEPT !.items = appendSuggestion(@, r.call.itemId, r.body)]

\* a response reaches the page: every request has its own connection, and the
\* responses on their way arrive in any order
Resolve(k) ==
    /\ k \in DOMAIN client.http
    /\ client' = [Resolved(client, client.http[k]) EXCEPT !.http = Splice(@, k)]
    /\ ServerIdle

\* the page sends a request
Call(call) ==
    /\ client.calling.op = "none"
    /\ client' = [client EXCEPT !.calling = call]
    /\ ServerIdle

\* setActiveListId(listId): the effect fetches the items of the list
setActiveListId(listId) ==
    /\ client.calling.op = "none"
    /\ client.activeListId # listId
    /\ client' = [client EXCEPT !.activeListId = listId,
                                !.calling = [op |-> "items", listId |-> listId]]
    /\ ServerIdle

\* actions.addItem
addItem(listId, productId) ==
    Call([op |-> "addItem", listId |-> listId, productId |-> productId,
          activeListId |-> client.activeListId])

\* actions.removeItem
actionsRemoveItem(itemId) == Call([op |-> "removeItem", itemId |-> itemId])

\* actions.toggleReaction
toggleReaction(itemId, kind) ==
    Call([op |-> "toggleReaction", itemId |-> itemId, kind |-> kind])

\* actions.addSuggestion
addSuggestion(itemId, productId) ==
    Call([op |-> "addSuggestion", itemId |-> itemId, productId |-> productId])

\* the handler of the request the page awaits
Serve ==
    LET call == client.calling IN
    CASE call.op = "items" -> GetItems(PageUser, call.listId)
      [] call.op = "addItem" -> AddItem(PageUser, call.listId, call.productId)
      [] call.op = "removeItem" -> RemoveItem(PageUser, call.itemId)
      [] call.op = "toggleReaction" -> React(PageUser, call.itemId, call.kind)
      [] call.op = "addSuggestion" -> Suggest(PageUser, call.itemId, call.productId)
      [] OTHER -> FALSE

(* --------------------------- specifications -------------------------- *)
\* uuidv4() has been called MaxIds times at most
Scope == Len(issued) <= MaxIds
\* uuidv4() can be called once more
CanIssue == Len(issued) < MaxIds
\* every connection has been sent MaxInbox events at most
InboxScope == \A c \in Conns : Len(sockets[c].inbox) <= MaxInbox
\* the clock has not passed MaxTime
TimeScope == now <= MaxTime
\* the clock has not passed the instant a timeout set at boot is due
WindowScope == now <= Debounce
\* the clock has not passed MaxHorizon
HorizonScope == now <= MaxHorizon
\* MaxWrites writes are in flight at most
WritesScope == Len(writes) <= MaxWrites
\* no connection has been sent anything: nothing is published while a connection
\* is in the room
SilentSockets == \A c \in Conns : sockets[c].inbox = << >>

\* Every handler, on the requests of one user that pass validation (an id that
\* names nothing is answered 404 where the handler looks it up).
Next ==
    \/ RunContinuation
    \/ \E ph \in OnePhone, nm \in LoginNames : Login(ph, nm) /\ Scope'
    \/ \E uid \in tokens : CreateList(uid, <<"G">>, NoVisibility, << >>) /\ Scope'
    \/ \E uid \in tokens, id \in NameableIds("list") : DeleteList(uid, id)
    \/ \E uid \in tokens, id \in NameableIds("list") : JoinList(uid, id)
    \/ \E uid \in tokens, id \in IssuedIds("list"), pid \in products :
          AddItem(uid, id, pid) /\ Scope'
    \/ \E uid \in tokens, id \in NameableIds("item") : RemoveItem(uid, id)
    \/ \E uid \in tokens, id \in IssuedIds("item"), k \in Kinds : React(uid, id, k)
    \/ \E uid \in tokens, id \in IssuedIds("item"), pid \in products :
          Suggest(uid, id, pid) /\ Scope'

Spec == Init /\ [][Next]_vars

\* Two users on one item of one list, under every handler.
OneList == Cardinality(IssuedIds("list")) <= 1
OneItem == Cardinality(IssuedIds("item")) <= 1
NextPairs ==
    \/ RunContinuation
    \/ \E ph \in Phones, nm \in LoginNames : Login(ph, nm) /\ Scope'
    \/ \E uid \in tokens : CreateList(uid, <<"G">>, NoVisibility, << >>) /\ Scope' /\ OneList'
    \/ \E uid \in tokens, id \in IssuedIds("list") : DeleteList(uid, id)
    \/ \E uid \in tokens, id \in IssuedIds("list") : JoinList(uid, id)
    \/ \E uid \in tokens, id \in IssuedIds("list"), pid \in products :
          AddItem(uid, id, pid) /\ Scope' /\ OneItem'
    \/ \E uid \in tokens, id \in IssuedIds("item") : RemoveItem(uid, id)
    \/ \E uid \in tokens, id \in IssuedIds("item"), k \in Kinds : React(uid, id, k)
    \/ \E uid \in tokens, id \in IssuedIds("item"), pid \in products :
          Suggest(uid, id, pid) /\ Scope'

SpecPairs == Init /\ [][NextPairs]_vars

\* Two lists at most and their members as the clock runs: lists made with
\* participants' phone numbers, joined and deleted.
NextMembers ==
    \/ RunContinuation
    \/ Tick /\ TimeScope'
    \/ \E ph \in Phones, nm \in LoginNames : Login(ph, nm) /\ Scope'
    \/ /\ CanIssue
       /\ Cardinality(IssuedIds("list")) < 2
       /\ \E uid \in tokens, phs \in PhoneLists :
             CreateList(uid, <<"G">>, NoVisibility, phs) /\ Scope'
    \/ \E uid \in tokens, id \in NameableIds("list") : DeleteList(uid, id)
    \/ \E uid \in tokens, id \in NameableIds("list") : JoinList(uid, id)

SpecMembers == Init /\ [][NextMembers]_vars

\* Lists and their members across the save timer and a restart of the process.
NextRestart ==
    \/ RunContinuation
    \/ \E ph \in OnePhone, nm \in LoginNames : Login(ph, nm) /\ Scope'
    \/ \E uid \in tokens : CreateList(uid, <<"G">>, NoVisibility, << >>) /\ Scope'
    \/ \E uid \in tokens, id \in NameableIds("list") : DeleteList(uid, id)
    \/ \E uid \in tokens, id \in NameableIds("list") : JoinList(uid, id)
    \/ Tick /\ WindowScope'
    \/ SaveTimerFires
    \/ WriteCompletes
    \/ Restart

SpecRestart == Init /\ [][NextRestart]_vars

\* Every handler on every request of one user, those that fail validation or
\* authentication too (of the list bodies that pass validation, two).
NextRequests ==
    \/ RunContinuation
    \/ AuthReject
    \/ \E ph \in OnePhone \cup {ShortPhone}, nm \in LoginNames \cup {""} :
          Login(ph, nm) /\ Scope'
    \/ \E uid \in tokens, nm \in ListNameInputs, vis \in VisibilityInputs :
          /\ CreateListBodyOk(nm, vis) => (nm \in {<<"G">>, <<" ">>} /\ vis = NoVisibility)
          /\ CreateList(uid, nm, vis, << >>) /\ Scope'
    \/ \E uid \in tokens, id \in NameableIds("list") : DeleteList(uid, id)
    \/ \E uid \in tokens, id \in NameableIds("list") : JoinList(uid, id)
    \/ \E uid \in tokens, id \in IssuedIds("list"), pid \in ProductInputs :
          AddItem(uid, id, pid) /\ Scope'
    \/ \E uid \in tokens, id \in NameableIds("item") : RemoveItem(uid, id)
    \/ \E uid \in tokens, id \in IssuedIds("item"), k \in KindInputs : React(uid, id, k)
    \/ \E uid \in tokens, id \in IssuedIds("item"), pid \in ProductInputs :
          Suggest(uid, id, pid) /\ Scope'

SpecRequests == Init /\ [][NextRequests]_vars

\* The callbacks of the event loop around the two cascades: the handlers that
\* fill the store, the cascades segment by segment, and what reads the store (the
\* two GET handlers and the handshake of a connection that is gone again before
\* the next event is published).
NextLoop ==
    \/ RunContinuation /\ SilentSockets'
    \/ \E ph \in OnePhone, nm \in LoginNames : Login(ph, nm) /\ Scope'
    \/ \E uid \in tokens :
          CreateList(uid, <<"G">>, NoVisibility, << >>) /\ Scope' /\ SilentSockets'
    \/ \E uid \in tokens, id \in IssuedIds("list"), pid \in products :
          AddItem(uid, id, pid) /\ Scope' /\ SilentSockets'
    \/ \E uid \in tokens, id \in IssuedIds("item"), k \in Kinds :
          React(uid, id, k) /\ SilentSockets'
    \/ \E uid \in tokens, id \in NameableIds("list") :
          DeleteListTask(uid, id) /\ SilentSockets'
    \/ \E uid \in tokens, id \in NameableIds("item") :
          RemoveItemTask(uid, id) /\ SilentSockets'
    \/ \E uid \in tokens : GetLists(uid)
    \/ \E uid \in tokens, id \in IssuedIds("list") : GetItems(uid, id)
    \/ \E token \in tokens \cup {NoToken} : Handshake(1, token)
    \/ Disconnect(1)

SpecLoop == Init /\ [][NextLoop]_vars

\* Two connections of one user around one list and its item: handshakes with and
\* without a good token, join_list and leave_list, disconnections, and the handlers
\* that publish on the list's channel.
NextSockets ==
    \/ RunContinuation
    \/ \E ph \in OnePhone, nm \in LoginNames : Login(ph, nm) /\ Scope'
    \/ \E uid \in tokens :
          CreateList(uid, <<"G">>, NoVisibility, << >>) /\ Scope' /\ OneList' /\ InboxScope'
    \/ \E uid \in tokens, id \in IssuedIds("list") : JoinList(uid, id) /\ InboxScope'
    \/ \E uid \in tokens, id \in IssuedIds("list") : DeleteList(uid, id) /\ InboxScope'
    \/ \E uid \in tokens, id \in IssuedIds("list"), pid \in products :
          AddItem(uid, id, pid) /\ Scope' /\ OneItem' /\ InboxScope'
    \/ \E c \in Conns, token \in tokens \cup {NoToken, BadToken} : Handshake(c, token)
    \/ \E c \in Conns, id \in IssuedIds("list") : JoinListRoom(c, id) /\ InboxScope'
    \/ \E c \in Conns, id \in IssuedIds("list") : LeaveListRoom(c, id)
    \/ \E c \in Conns : Disconnect(c)

SpecSockets == Init /\ [][NextSockets]_vars

\* The handshakes of one connection per run of the process, for two users and one
\* list, across restarts: with and without a good token, before and after the
\* store is loaded (nothing is published in a room while the connection is in it).
NextHandshake ==
    \/ RunContinuation
    \/ Restart
    \/ \E ph \in Phones, nm \in LoginNames : Login(ph, nm) /\ Scope'
    \/ \E uid \in tokens :
          CreateList(uid, <<"G">>, NoVisibility, << >>) /\ Scope' /\ OneList' /\ SilentSockets'
    \/ \E uid \in tokens, id \in IssuedIds("list") : JoinList(uid, id) /\ SilentSockets'
    \/ \E uid \in tokens, id \in IssuedIds("list") : DeleteList(uid, id) /\ SilentSockets'
    \/ \E token \in tokens \cup {NoToken, BadToken} : Handshake(1, token)
    \/ Disconnect(1)

SpecHandshake == Init /\ [][NextHandshake]_vars

\* The debounce timer, the writes of store.json and a restart of the process, with
\* the clock: one user logs in, creates lists and deletes them.
NextSave ==
    \/ RunContinuation
    \/ Tick /\ HorizonScope'
    \/ \E ph \in OnePhone, nm \in LoginNames : Login(ph, nm) /\ Scope'
    \/ /\ Cardinality(IssuedIds("list")) < 2
       /\ \E uid \in tokens : CreateList(uid, <<"G">>, NoVisibility, << >>) /\ Scope'
    \/ \E uid \in tokens, id \in IssuedIds("list") : DeleteList(uid, id)
    \/ SaveTimerFires /\ WritesScope'
    \/ WriteCompletes
    \/ Restart

SpecSave == Init /\ [][NextSave]_vars

\* The same when the storage may refuse a write.
NextFailure ==
    \/ RunContinuation
    \/ Tick /\ HorizonScope'
    \/ \E ph \in OnePhone, nm \in LoginNames : Login(ph, nm) /\ Scope'
    \/ /\ Cardinality(IssuedIds("list")) < 1
       /\ \E uid \in tokens : CreateList(uid, <<"G">>, NoVisibility, << >>) /\ Scope'
    \/ SaveTimerFires /\ WritesScope'
    \/ WriteCompletes
    \/ WriteFails
    \/ Restart

SpecFailure == Init /\ [][NextFailure]_vars

\* The page of one user on one list and its item: the store is filled, the page
\* connects, opens the list, and adds, removes, reacts and suggests while its
\* requests, their responses and the events of its socket are on their way.
Idle == client.calling.op = "none"
\* MaxFlight responses are on their way to the page at most
FlightScope == Len(client.http) <= MaxFlight
NextPage ==
    \/ RunContinuation
    \/ \E ph \in OnePhone, nm \in LoginNames : Idle /\ Login(ph, nm) /\ Scope'
    \/ \E uid \in tokens :
          Idle /\ CreateList(uid, <<"G">>, NoVisibility, << >>) /\ Scope' /\ OneList'
               /\ InboxScope'
    \/ \E uid \in tokens, id \in IssuedIds("list"), pid \in products :
          Idle /\ AddItem(uid, id, pid) /\ Scope' /\ OneItem' /\ InboxScope'
    \/ \E token \in tokens : Handshake(socketRef, token)
    \/ \E id \in IssuedIds("list") :
          <<"list", id>> \in sockets[socketRef].rooms /\ setActiveListId(id)
    \/ \E id \in IssuedIds("list"), pid \in products :
          client.activeListId = id /\ addItem(id, pid)
    \/ \E k \in DOMAIN client.items : actionsRemoveItem(client.items[k].item.id)
    \/ \E k \in DOMAIN client.items, kind \in Kinds :
          toggleReaction(client.items[k].item.id, kind)
    \/ \E k \in DOMAIN client.items, pid \in products :
          addSuggestion(client.items[k].item.id, pid)
    \/ Serve /\ Scope' /\ OneItem' /\ InboxScope' /\ FlightScope'
    \/ Receive
    \/ \E k \in DOMAIN client.http : Resolve(k)

SpecPage == Init /\ [][NextPage]_vars

(* ------------------------------- claims ------------------------------- *)
\* the reactions of one user on one item, in the order of store.reactions
ReactionsOf(st, u, i) == SelectSeq(st.reactions, LAMBDA r : r.userId = u /\ r.itemId = i)
\* the last request was a toggle that published on a list's channel
ReactedEvent ==
    /\ Len(emitted) = 1
    /\ emitted[1].event = "wishlist:item_reacted"

\* C1: a toggle by user u on item i with kind k follows the table: with no reaction
\* of u on i before, there is exactly one after, of kind k; with one of kind k before,
\* there is none after; with one of the other kind before, there is exactly one
\* after, of kind k.
C1_ToggleTable ==
    [][\A u \in tokens, i \in IssuedIds("item"), k \in Kinds :
          React(u, i, k) =>
              LET before == ReactionsOf(store, u, i)
                  after == ReactionsOf(store', u, i)
                  one == <<[userId |-> u, itemId |-> i, kind |-> k]>>
              IN
              /\ before = << >> => after = one
              /\ (before # << >> /\ before[1].kind = k) => after = << >>
              /\ (before # << >> /\ before[1].kind # k) => after = one]_vars
\* a toggle has just removed the only reaction of an item (LIKE, LIKE) while the
\* user's reaction on another item stays
C1_Witness ==
    /\ ReactedEvent
    /\ emitted[1].payload.likes = 0
    /\ emitted[1].payload.dislikes = 0
    /\ store.reactions # << >>

\* C2: the reactions collection holds at most one Reaction per (user-id, item-id) pair
C2_OneReactionPerPair ==
    \A i, j \in DOMAIN store.reactions :
        (/\ store.reactions[i].userId = store.reactions[j].userId
         /\ store.reactions[i].itemId = store.reactions[j].itemId) => i = j
\* two users hold a reaction on the same item, one of each kind, after a toggle
C2_Witness ==
    /\ ReactedEvent
    /\ emitted[1].payload.likes = 1
    /\ emitted[1].payload.dislikes = 1
    /\ Len(store.reactions) = 2

\* the ids of the items of list L
ItemIdsOf(st, L) == {st.shopListItems[k].id : k \in {n \in DOMAIN st.shopListItems :
                                                        st.shopListItems[n].shopListId = L}}
DeletedEvent ==
    /\ Len(emitted) = 1
    /\ emitted[1].event = "wishlist:list_deleted"

\* C3: deleting an existing list L leaves no item of L, no reaction and no suggestion
\* on an item that belonged to L, no list L and no user whose shopListIds holds L;
\* the other lists, the items of other lists, the reactions and suggestions on those
\* items and the rest of every user are as they were.
C3_DeleteListCascade ==
    [][\A u \in tokens, L \in IssuedIds("list") :
          (DeleteList(u, L) /\ ListIndex(store.shopLists, L) # 0) =>
              LET gone == ItemIdsOf(store, L)
                  kept == {store.shopListItems[k].id : k \in DOMAIN store.shopListItems} \ gone
              IN
              /\ ItemIdsOf(store', L) = {}
              /\ \A k \in DOMAIN store'.reactions : store'.reactions[k].itemId \notin gone
              /\ \A k \in DOMAIN store'.suggestions : store'.suggestions[k].itemId \notin gone
              /\ ListIndex(store'.shopLists, L) = 0
              /\ \A k \in DOMAIN store'.users : ~Includes(store'.users[k].shopListIds, L)
              /\ store'.shopLists = SelectSeq(store.shopLists, LAMBDA x : x.id # L)
              /\ store'.shopListItems =
                    SelectSeq(store.shopListItems, LAMBDA i : i.shopListId # L)
              /\ SelectSeq(store'.reactions, LAMBDA r : r.itemId \in kept)
                    = SelectSeq(store.reactions, LAMBDA r : r.itemId \in kept)
              /\ SelectSeq(store'.suggestions, LAMBDA g : g.itemId \in kept)
                    = SelectSeq(store.suggestions, LAMBDA g : g.itemId \in kept)
              /\ Len(store'.users) = Len(store.users)
              /\ \A k \in DOMAIN store.users :
                    store'.users[k] =
                        [store.users[k] EXCEPT
                            !.shopListIds = SelectSeq(@, LAMBDA lid : lid # L)]]_vars
\* a list has just been deleted while an item of another, live list keeps its reaction
C3_Witness ==
    /\ DeletedEvent
    /\ \E k \in DOMAIN store.reactions :
          LET i == ItemIndex(store.shopListItems, store.reactions[k].itemId) IN
          /\ i # 0
          /\ ListIndex(store.shopLists, store.shopListItems[i].shopListId) # 0

\* C4: every item's shopListId is the id of a list present in shopLists
C4_ItemsReferenceLiveList ==
    \A k \in DOMAIN store.shopListItems :
        ListIndex(store.shopLists, store.shopListItems[k].shopListId) # 0

\* C5: every reaction's itemId and every suggestion's itemId is the id of an item
\* present in shopListItems
C5_NoOrphans ==
    /\ \A k \in DOMAIN store.reactions :
          ItemIndex(store.shopListItems, store.reactions[k].itemId) # 0
    /\ \A k \in DOMAIN store.suggestions :
          ItemIndex(store.shopListItems, store.suggestions[k].itemId) # 0

\* C9: removing an existing item i leaves no item i and no reaction or suggestion on
\* i; every other item, reaction and suggestion, every list and every user is as it was.
C9_RemoveItemFrame ==
    [][\A u \in tokens, i \in IssuedIds("item") :
          (RemoveItem(u, i) /\ ItemIndex(store.shopListItems, i) # 0) =>
              /\ ItemIndex(store'.shopListItems, i) = 0
              /\ \A k \in DOMAIN store'.reactions : store'.reactions[k].itemId # i
              /\ \A k \in DOMAIN store'.suggestions : store'.suggestions[k].itemId # i
              /\ store'.shopListItems = SelectSeq(store.shopListItems, LAMBDA x : x.id # i)
              /\ SelectSeq(store.reactions, LAMBDA r : r.itemId # i)
                    = SelectSeq(store'.reactions, LAMBDA r : r.itemId # i)
              /\ SelectSeq(store.suggestions, LAMBDA g : g.itemId # i)
                    = SelectSeq(store'.suggestions, LAMBDA g : g.itemId # i)
              /\ store'.shopLists = store.shopLists
              /\ store'.users = store.users]_vars
\* an item has just been removed while another item, with a reaction, stays
C9_Witness ==
    /\ Len(emitted) = 1
    /\ emitted[1].event = "wishlist:item_removed"
    /\ \E k \in DOMAIN store.reactions :
          ItemIndex(store.shopListItems, store.reactions[k].itemId) # 0

\* C6: every list's participantIds contains the list's ownerId
C6_OwnerParticipates ==
    \A k \in DOMAIN store.shopLists :
        Includes(store.shopLists[k].participantIds, store.shopLists[k].ownerId)
\* a user who is not the owner has just joined a list that now has two participants
C6_Witness ==
    /\ Len(emitted) = 1
    /\ emitted[1].event = "wishlist:participant_joined"
    /\ \E k \in DOMAIN store.shopLists :
          /\ store.shopLists[k].id = emitted[1].payload.listId
          /\ Len(store.shopLists[k].participantIds) = 2
          /\ store.shopLists[k].ownerId # emitted[1].payload.userId

\* C7: L is in user u's shopListIds if and only if list L exists and u is in its
\* participantIds, for every user id u that holds a token or a User record
C7_MembershipInverse ==
    \A u \in tokens \cup {store.users[k].id : k \in DOMAIN store.users},
       L \in IssuedIds("list") :
        (\E k \in DOMAIN store.users :
            store.users[k].id = u /\ Includes(store.users[k].shopListIds, L))
        <=>
        (\E k \in DOMAIN store.shopLists :
            store.shopLists[k].id = L /\ Includes(store.shopLists[k].participantIds, u))

\* C8: a join of list L by a user u who has a User record leaves u once in
\* L.participantIds and L once in u.shopListIds; when u is a participant already,
\* the join changes nothing in the store but L.updatedAt
C8_JoinIdempotent ==
    [][\A u \in tokens, L \in IssuedIds("list") :
          (/\ JoinList(u, L)
           /\ ListIndex(store.shopLists, L) # 0
           /\ UserIndexById(store.users, u) # 0) =>
              LET l == ListIndex(store.shopLists, L)
                  k == UserIndexById(store.users, u)
              IN
              /\ Count(store'.shopLists[l].participantIds, u) = 1
              /\ Count(store'.users[k].shopListIds, L) = 1
              /\ Includes(store.shopLists[l].participantIds, u) =>
                    store' = [store EXCEPT
                                !.shopLists[l].updatedAt = store'.shopLists[l].updatedAt]]_vars
\* the owner, a participant since the list was made, has just joined again, later
C8_Witness ==
    /\ Len(emitted) = 1
    /\ emitted[1].event = "wishlist:participant_joined"
    /\ \E k \in DOMAIN store.shopLists :
          /\ store.shopLists[k].id = emitted[1].payload.listId
          /\ store.shopLists[k].ownerId = emitted[1].payload.userId
          /\ store.shopLists[k].updatedAt > store.shopLists[k].createdAt
          /\ Len(store.shopLists[k].participantIds) = 2

\* C10: a request answered 400, 401 or 404 leaves the store, the save timer and
\* the snapshot as they were and publishes no event; what the handlers read to
\* answer a later request (the store, the ids issued, the tokens, the clock) is
\* unchanged, so that the later request is answered as if this one was never made
\* (every step but that of boot, which sets loaded, is the handling of a request)
C10_RejectedNoEffect ==
    [][(loaded' = loaded /\ res'.status \in {400, 401, 404}) =>
          /\ store' = store
          /\ saveTimer' = saveTimer
          /\ timers' = timers
          /\ writes' = writes
          /\ disk' = disk
          /\ emitted' = << >>
          /\ UNCHANGED <<issued, tokens, now>>]_vars
\* the removal of an item that is not there has just been answered 404, in a store
\* that holds items
C10_Witness ==
    /\ res.status = 404
    /\ res.body.error = "item not found"
    /\ store.shopListItems # << >>
    /\ emitted = << >>

\* C11: a toggle or a suggestion on an item id that is not in shopListItems is
\* answered 404 and leaves reactions and suggestions as they were
C11_MissingItemNotFound ==
    [][\A u \in tokens, i \in IssuedIds("item") :
          (/\ ItemIndex(store.shopListItems, i) = 0
           /\ \/ \E k \in Kinds : React(u, i, k)
              \/ \E p \in products : Suggest(u, i, p)) =>
              /\ res'.status = 404
              /\ store'.reactions = store.reactions
              /\ store'.suggestions = store.suggestions]_vars

\* C12: adding an item to, or joining, a list id that is not in shopLists is
\* answered 404 and leaves items, lists and users as they were
C12_MissingListNotFound ==
    [][\A u \in tokens, L \in NameableIds("list") :
          (/\ ListIndex(store.shopLists, L) = 0
           /\ \/ \E p \in products : AddItem(u, L, p)
              \/ JoinList(u, L)) =>
              /\ res'.status = 404
              /\ store'.shopListItems = store.shopListItems
              /\ store'.shopLists = store.shopLists
              /\ store'.users = store.users]_vars

\* the reactions on item i, as a set
ReactionsOn(st, i) == {r \in Range(st.reactions) : r.itemId = i}
OtherKind(k) == IF k = "LIKE" THEN "DISLIKE" ELSE "LIKE"

\* C13: on an existing item with no reaction, a toggle by one user and then a
\* toggle of the other kind by another user are both answered 200; after the first
\* the item holds the first user's reaction, after the second exactly the two
\* reactions, whichever kind came first, and the counts are likes = 1, dislikes = 1
C13_TwoTogglesCommute ==
    [][\A u \in tokens, i \in IssuedIds("item"), k \in Kinds :
          (React(u, i, k) /\ ItemIndex(store.shopListItems, i) # 0) =>
              LET mine == [userId |-> u, itemId |-> i, kind |-> k] IN
              /\ ReactionsOn(store, i) = {} =>
                    /\ res'.status = 200
                    /\ ReactionsOn(store', i) = {mine}
              /\ \A v \in tokens \ {u} :
                    LET theirs == [userId |-> v, itemId |-> i, kind |-> OtherKind(k)] IN
                    ReactionsOn(store, i) = {theirs} =>
                        /\ res'.status = 200
                        /\ ReactionsOn(store', i) = {theirs, mine}
                        /\ Cardinality({n \in DOMAIN store'.reactions :
                                            store'.reactions[n].itemId = i}) = 2
                        /\ res'.body.likes = 1
                        /\ res'.body.dislikes = 1]_vars
\* the second of the two toggles has just been answered, the DISLIKE having come first
C13_Witness ==
    /\ ReactedEvent
    /\ res.status = 200
    /\ res.body.likes = 1
    /\ res.body.dislikes = 1
    /\ Len(store.reactions) = 2
    /\ store.reactions[1].kind = "DISLIKE"
    /\ store.reactions[1].userId # store.reactions[2].userId
    /\ store.reactions[1].itemId = store.reactions[2].itemId

\* C14: the likes and dislikes a toggle returns are the numbers of LIKE and of
\* DISLIKE reactions the store holds for the item after the toggle, and their sum is
\* the number of users who hold a reaction on the item
C14_CountsAfterToggle ==
    [][\A u \in tokens, i \in IssuedIds("item"), k \in Kinds :
          (React(u, i, k) /\ res'.status = 200) =>
              LET held(kind) == {n \in DOMAIN store'.reactions :
                                    /\ store'.reactions[n].itemId = i
                                    /\ store'.reactions[n].kind = kind}
                  users == {r.userId : r \in ReactionsOn(store', i)}
              IN
              /\ res'.body.likes = Cardinality(held("LIKE"))
              /\ res'.body.dislikes = Cardinality(held("DISLIKE"))
              /\ res'.body.likes + res'.body.dislikes = Cardinality(users)]_vars
\* a toggle has just been answered with two dislikes, of two users
C14_Witness ==
    /\ ReactedEvent
    /\ res.status = 200
    /\ res.body.likes = 0
    /\ res.body.dislikes = 2
    /\ Len(store.reactions) = 2

\* no continuation of a cascade waits with the event loop
NoCascadePending == \A k \in DOMAIN pending : pending[k].op = "listen"

\* C15: no callback finds a cascade partly applied: no step leaves the continuation
\* of a delete-list or remove-item with the event loop for a read (GET /lists, GET
\* items, a handshake) or another mutation to run before it, and a delete-list or
\* remove-item step takes the store from what it was to the store with the whole
\* cascade applied
C15_CascadeAtomic ==
    [][/\ NoCascadePending'
       /\ \A u \in tokens, L \in IssuedIds("list") :
             (DeleteListTask(u, L) /\ res'.status = 200) =>
                 store' = DeleteListStore(store, L)
       /\ \A u \in tokens, i \in IssuedIds("item") :
             (RemoveItemTask(u, i) /\ res'.status = 200) =>
                 store' = RemoveItemStore(store, i)]_vars
\* GET /lists has just answered with no list, after a list that had an item with a
\* reaction was deleted: nothing of the cascade is left to see
C15_Witness ==
    /\ res.status = 200
    /\ "lists" \in DOMAIN res.body
    /\ res.body.lists = << >>
    /\ IssuedIds("item") # {}
    /\ store.shopListItems = << >>
    /\ store.reactions = << >>
    /\ \E k \in DOMAIN store.users : store.users[k].shopListIds = << >>

\* what a step has sent to connection c
Sent(c) ==
    IF Len(sockets'[c].inbox) >= Len(sockets[c].inbox)
    THEN SubSeq(sockets'[c].inbox, Len(sockets[c].inbox) + 1, Len(sockets'[c].inbox))
    ELSE << >>
\* connection c is connected and in the room
Subscribed(c, room) == sockets[c].state = "active" /\ room \in sockets[c].rooms
\* a step of a handler that publishes on a list's channel
PublishesOnList ==
    \E uid \in tokens, id \in IssuedIds("list") :
        \/ \E pid \in products : AddItem(uid, id, pid)
        \/ JoinList(uid, id)
        \/ DeleteList(uid, id)

\* C16: what a handler publishes on a list's channel is sent to exactly the
\* connections subscribed to the channel at that time; a connection is subscribed
\* from its handshake or its join_list until its leave_list or its disconnection;
\* and no step sends a connection an event of a room it is not subscribed to
C16_DeliveredToSubscribers ==
    [][\A c \in Conns :
          /\ PublishesOnList =>
                Sent(c) = SelectSeq(emitted', LAMBDA e : Subscribed(c, e.room))
          /\ \A L \in IssuedIds("list") :
                /\ JoinListRoom(c, L) => <<"list", L>> \in sockets'[c].rooms
                /\ LeaveListRoom(c, L) => <<"list", L>> \notin sockets'[c].rooms
          /\ Disconnect(c) => sockets'[c].rooms = {}
          /\ \A k \in DOMAIN Sent(c) :
                \/ Sent(c)[k].event = "joined_list"
                \/ Subscribed(c, Sent(c)[k].room)]_vars
\* an item has just been added: one connection was sent the event, another one, which
\* had joined the list's channel and has left it, was not
C16_Witness ==
    /\ Len(emitted) = 1
    /\ emitted[1].event = "wishlist:item_added"
    /\ \E c, d \in Conns :
          /\ c # d
          /\ sockets[c].state = "active"
          /\ sockets[d].state = "active"
          /\ sockets[c].inbox # << >>
          /\ sockets[c].inbox[Len(sockets[c].inbox)] = emitted[1]
          /\ Len(sockets[d].inbox) = 1
          /\ sockets[d].inbox[1].event = "joined_list"
          /\ emitted[1].room \notin sockets[d].rooms

\* the events of one room among those sent to a connection
OfRoom(inbox, room) == SelectSeq(inbox, LAMBDA e : e.room = room)
\* the store holds what the event tells
Applied(st, e) ==
    CASE e.event = "wishlist:item_added" ->
            ItemIndex(st.shopListItems, e.payload.item.id) # 0
      [] e.event = "wishlist:list_deleted" ->
            ListIndex(st.shopLists, e.payload.id) = 0
      [] e.event = "wishlist:participant_joined" ->
            /\ ListIndex(st.shopLists, e.payload.listId) # 0
            /\ Includes(st.shopLists[ListIndex(st.shopLists, e.payload.listId)].participantIds,
                        e.payload.userId)
      [] OTHER -> TRUE

\* C17: for a connection and a channel, what a step sends comes after all that was
\* sent before, in the order the handler published it, and the store already holds
\* the mutation an event tells when the event is sent: the events of a channel reach
\* a connection in the order of the mutations
C17_FifoPerChannel ==
    [][\A c \in Conns :
          (sockets[c].state = "active" /\ sockets'[c].state = "active") =>
              /\ sockets'[c].inbox = sockets[c].inbox \o Sent(c)
              /\ \A L \in IssuedIds("list") :
                    /\ OfRoom(sockets'[c].inbox, <<"list", L>>)
                          = OfRoom(sockets[c].inbox, <<"list", L>>)
                                \o OfRoom(Sent(c), <<"list", L>>)
                    /\ OfRoom(Sent(c), <<"list", L>>) # << >> =>
                          OfRoom(Sent(c), <<"list", L>>) = OfRoom(emitted', <<"list", L>>)
              /\ \A k \in DOMAIN Sent(c) : Applied(store', Sent(c)[k])]_vars
\* a connection has been sent the item-added and then the list-deleted of one list
C17_Witness ==
    \E c \in Conns :
        /\ Len(sockets[c].inbox) = 2
        /\ sockets[c].inbox[1].event = "wishlist:item_added"
        /\ sockets[c].inbox[2].event = "wishlist:list_deleted"
        /\ sockets[c].inbox[1].room = sockets[c].inbox[2].room

\* C18: a handshake that does not make the connection active (no token, a token that
\* does not verify, a failure after the token verified) leaves it closed, in no
\* room and with nothing sent to it, and nothing is sent to it later
C18_RefusedNeverSubscribed ==
    [][\A c \in Conns :
          /\ \A token \in tokens \cup {NoToken, BadToken} :
                (Handshake(c, token) /\ sockets'[c].state # "active") =>
                    /\ sockets'[c].state = "closed"
                    /\ sockets'[c].rooms = {}
                    /\ sockets'[c].inbox = << >>
          /\ (sockets[c].state = "closed" /\ sockets[c].inbox = << >>) =>
                sockets'[c].inbox = << >>]_vars

\* C19: the rooms of a connection that has just become active as user u are the room
\* of u and the rooms of the lists whose participantIds holds u, and no other
C19_RoomsAtHandshake ==
    [][\A c \in Conns, u \in tokens :
          (Handshake(c, u) /\ sockets'[c].state = "active") =>
              /\ sockets'[c].userId = u
              /\ \A r \in sockets'[c].rooms : r[1] \in {"user", "list"}
              /\ \A v \in DOMAIN issued :
                    <<"user", v>> \in sockets'[c].rooms <=> v = u
              /\ \A L \in DOMAIN issued :
                    <<"list", L>> \in sockets'[c].rooms <=>
                        \E k \in DOMAIN store.shopLists :
                            /\ store.shopLists[k].id = L
                            /\ \E n \in DOMAIN store.shopLists[k].participantIds :
                                  store.shopLists[k].participantIds[n] = u]_vars
\* a connection is active, with nothing sent to it yet, in its user's room and the
\* room of a list its user joined but does not own
C19_Witness ==
    \E c \in Conns :
        /\ sockets[c].state = "active"
        /\ sockets[c].inbox = << >>
        /\ <<"user", sockets[c].userId>> \in sockets[c].rooms
        /\ \E k \in DOMAIN store.shopLists :
              /\ <<"list", store.shopLists[k].id>> \in sockets[c].rooms
              /\ store.shopLists[k].ownerId # sockets[c].userId

\* C20: a closed connection is in no room, and nothing is sent to it once it is closed
C20_ClosedInNoRoom ==
    [][\A c \in Conns :
          /\ sockets'[c].state = "closed" => sockets'[c].rooms = {}
          /\ (sockets[c].state = "closed" /\ sockets'[c].state = "closed") =>
                sockets'[c].inbox = sockets[c].inbox]_vars

(* ----------------------------- persistence ---------------------------- *)
\* a write of store.json has just been started
WriteStarted == Len(writes') = Len(writes) + 1
\* the text of the write started last
LastWrite(ws) == ws[Len(ws)]

\* C21: at most one save timer is pending at any time, saveTimer refers to it, and
\* a call of scheduleSave() while it is pending leaves one pending; when it fires,
\* one write is started, of the whole store as it is at that moment, and no timer
\* is left to start another
C21_Coalesced ==
    [][/\ Len(timers') <= 1
       /\ saveTimer' <=> (timers' # << >>)
       /\ WriteStarted =>
            /\ timers # << >>
            /\ timers' = << >>
            /\ writes' = Append(writes, Stringify(store))
            /\ store' = store]_vars
\* The first write since boot is in flight and no timer is pending: it holds the
\* user and the list, made by two handlers that each called scheduleSave() before
\* the timer fired, and store.json has not a user yet.
C21_Witness ==
    /\ Len(writes) = 1
    /\ timers = << >>
    /\ Parse(writes[1]).users # << >>
    /\ Parse(writes[1]).shopLists # << >>
    /\ Parse(writes[1]) = store
    /\ disk.snapshot.state = "json"
    /\ Parse(disk.snapshot.doc).users = << >>

\* C22: when a write of the snapshot fails, the store stays as it is and the process
\* goes on serving: it has not exited, it has not lost what it had loaded, and its
\* connections stay open
C22_FailedWriteHarmless ==
    [][WriteFails =>
          /\ running'
          /\ store' = store
          /\ loaded' = loaded
          /\ sockets' = sockets]_vars

\* loadStore() has just resolved at boot
Loads == ~loaded /\ loaded'

\* C23: load takes the snapshot when there is one, returns its content and leaves
\* the file untouched; it takes the seed only when there is no snapshot, and the
\* empty default only when there is neither
C23_SnapshotNeverReplaced ==
    [][Loads =>
          IF disk.snapshot.state # "absent"
          THEN disk' = disk /\ Stringify(store') = disk.snapshot.doc
          ELSE IF disk.seed.state # "absent"
          THEN Stringify(store') = disk.seed.doc
          ELSE store' = defaultData]_vars

ProductIds(st) == {st.products[k].id : k \in DOMAIN st.products}

\* C25: after every step the product of every item and of every suggestion is in
\* store.products; a request that names a product that is not there is answered
\* 404 and leaves the store as it was; and no request changes store.products
C25_ProductsExist ==
    [][/\ loaded' =>
            /\ \A k \in DOMAIN store'.shopListItems :
                  store'.shopListItems[k].productId \in ProductIds(store')
            /\ \A k \in DOMAIN store'.suggestions :
                  store'.suggestions[k].suggestedProductId \in ProductIds(store')
       /\ (loaded /\ loaded') => store'.products = store.products
       /\ \A u \in tokens, p \in ProductInputs \ ProductIds(store) :
            (\/ \E L \in IssuedIds("list") : AddItem(u, L, p)
             \/ \E i \in IssuedIds("item") : Suggest(u, i, p)) =>
                (res'.status \in {400, 404, 500} /\ store' = store)]_vars
\* an item and a suggestion are in the store, and a request that named a product
\* that does not exist has just been answered 404
C25_Witness ==
    /\ store.shopListItems # << >>
    /\ store.suggestions # << >>
    /\ res.status = 404
    /\ res.body.error = "product not found"

(* ------------------------- events and channels ------------------------ *)
\* the event name the README's Socket.IO usage listens on: socket.on("item:added", ...)
ReadmeItemAdded == "item:added"

\* C26: a connection in the room of a list (join_list) that listens on the name the
\* README gives is sent an event of that name when an item is added to the list
C26_ReadmeEventName ==
    [][\A c \in Conns, uid \in tokens, L \in IssuedIds("list"), pid \in products :
          (/\ Subscribed(c, <<"list", L>>)
           /\ AddItem(uid, L, pid)
           /\ res'.status = 201) =>
              \E k \in DOMAIN Sent(c) : Sent(c)[k].event = ReadmeItemAdded]_vars

\* the step has published one event, named ev, on the channel of list L, and the
\* store already holds what it tells
Published(ev, L) ==
    /\ Len(emitted') = 1
    /\ emitted'[1].event = ev
    /\ emitted'[1].room = <<"list", L>>
    /\ Applied(store', emitted'[1])
\* the request has been answered with success
Succeeded == res'.status \in {200, 201}

\* C27: a join, an added item, a removed item, a toggled reaction, a suggestion or a
\* deleted list that is answered with success has published exactly one event, of
\* its own type, on the channel of the list it affects, the store holding the
\* mutation already; the counts of an item-reacted event are those of the store
C27_OneEventPerMutation ==
    [][\A u \in tokens :
          /\ \A L \in IssuedIds("list") :
                /\ (JoinList(u, L) /\ Succeeded) => Published("wishlist:participant_joined", L)
                /\ (DeleteList(u, L) /\ Succeeded) => Published("wishlist:list_deleted", L)
                /\ \A p \in products :
                      (AddItem(u, L, p) /\ Succeeded) => Published("wishlist:item_added", L)
          /\ \A i \in IssuedIds("item") :
                /\ (RemoveItem(u, i) /\ Succeeded) =>
                      \E L \in IssuedIds("list") : Published("wishlist:item_removed", L)
                /\ \A k \in Kinds :
                      (React(u, i, k) /\ Succeeded) =>
                          /\ \E L \in IssuedIds("list") : Published("wishlist:item_reacted", L)
                          /\ emitted'[1].payload.likes =
                                Cardinality({n \in DOMAIN store'.reactions :
                                    /\ store'.reactions[n].itemId = i
                                    /\ store'.reactions[n].kind = "LIKE"})
                          /\ emitted'[1].payload.dislikes =
                                Cardinality({n \in DOMAIN store'.reactions :
                                    /\ store'.reactions[n].itemId = i
                                    /\ store'.reactions[n].kind = "DISLIKE"})
                /\ \A p \in products :
                      (Suggest(u, i, p) /\ Succeeded) =>
                          \E L \in IssuedIds("list") : Published("wishlist:item_suggested", L)]_vars

\* user u is in the participantIds of list L
Participates(st, u, L) ==
    /\ ListIndex(st.shopLists, L) # 0
    /\ Includes(st.shopLists[ListIndex(st.shopLists, L)].participantIds, u)

\* C28 as claimed: in every state every active connection of a participant of a
\* list is subscribed to the list's channel
C28_ParticipantsSubscribed ==
    \A c \in Conns, L \in IssuedIds("list") :
        (/\ sockets[c].state = "active"
         /\ loaded
         /\ Participates(store, sockets[c].userId, L)) => Subscribed(c, <<"list", L>>)

\* C28, amended: a connection is subscribed at its handshake to the channel of every
\* list its user participates in then; afterwards it enters a channel only by its
\* own join_list (no HTTP request subscribes it, whoever becomes a participant) and
\* leaves one only by its own leave_list or by closing
C28_SubscribedByHandshakeOrSignal ==
    [][\A c \in Conns :
          /\ (sockets[c].state = "new" /\ sockets'[c].state = "active") =>
                \A L \in IssuedIds("list") :
                    Participates(store, sockets'[c].userId, L) => Subscribed(c, <<"list", L>>)'
          /\ (sockets[c].state = "active" /\ sockets'[c].state = "active") =>
                /\ \A room \in sockets'[c].rooms \ sockets[c].rooms :
                      \E L \in IssuedIds("list") : room = <<"list", L>> /\ JoinListRoom(c, L)
                /\ \A room \in sockets[c].rooms \ sockets'[c].rooms :
                      \E L \in IssuedIds("list") : room = <<"list", L>> /\ LeaveListRoom(c, L)
          /\ \A L \in IssuedIds("list") :
                JoinListRoom(c, L) => Subscribed(c, <<"list", L>>)']_vars
\* A connection was told of a list created after its handshake (list_created on its
\* user's channel), has emitted join_list and is now in the list's channel.
C28_Witness ==
    \E c \in Conns, L \in IssuedIds("list") :
        /\ Subscribed(c, <<"list", L>>)
        /\ Participates(store, sockets[c].userId, L)
        /\ Len(sockets[c].inbox) = 2
        /\ sockets[c].inbox[1].event = "wishlist:list_created"
        /\ sockets[c].inbox[1].payload.list.id = L
        /\ sockets[c].inbox[2].event = "joined_list"
        /\ sockets[c].inbox[2].payload.listId = L

\* C29: a mutation is picked up by a write within the debounce window of its
\* commit, however many mutations follow it: a call of scheduleSave() while the
\* timer is pending leaves the instant it is due where it was
C29_BoundedDelay ==
    [][/\ unsaved' # << >> => now' - unsaved'[1] <= Debounce
       /\ (timers # << >> /\ timers' # << >>) => timers' = timers]_vars

\* C30: a handler that changes the store leaves a save timer pending, and once no
\* timer is pending and no write is in flight in the running process, store.json
\* holds the store as it is: no mutation stays unsaved for good
C30_SettledMeansSaved ==
    [][/\ (loaded /\ loaded' /\ store' # store) => timers' # << >>
       /\ (running' /\ loaded' /\ timers' = << >> /\ writes' = << >>) =>
            disk'.snapshot = JsonFile(Stringify(store'))]_vars

(* ------------------------------ create list --------------------------- *)
\* the phone numbers of the users of a store
PhonesOf(st) == {st.users[k].phoneNumber : k \in DOMAIN st.users}
\* the ids of the users of a store that have one of the phone numbers
IdsOfPhones(st, phs) == {st.users[k].id : k \in {n \in DOMAIN st.users :
                            st.users[n].phoneNumber \in phs}}

\* C31: a list created without a visibility is LINK; its participantIds is the owner
\* and the users of the given phone numbers, each id once; one user is created for
\* each distinct number that no user had, none for the others
C31_CreateListParticipants ==
    [][\A uid \in tokens, phs \in PhoneLists :
          (/\ res'.status = 201
           /\ Len(store'.shopLists) > Len(store.shopLists)
           /\ CreateList(uid, <<"G">>, NoVisibility, phs)) =>
              LET list == store'.shopLists[1] IN
              /\ Len(store'.shopLists) = Len(store.shopLists) + 1
              /\ list.visibility = "LINK"
              /\ list.ownerId = uid
              /\ Range(list.participantIds) = {uid} \cup IdsOfPhones(store', Range(phs))
              /\ Len(list.participantIds) = Cardinality(Range(list.participantIds))
              /\ Len(store'.users) = Len(store.users)
                                        + Cardinality(Range(phs) \ PhonesOf(store))
              /\ PhonesOf(store') = PhonesOf(store) \cup Range(phs)
              /\ Cardinality(PhonesOf(store')) = Len(store'.users)]_vars
\* A list has just been created with two phone numbers (its owner and both numbers
\* were notified) and has two participants: one number was the owner's or a
\* duplicate; the other made a new user.
C31_Witness ==
    /\ Len(emitted) = 3
    /\ emitted[1].event = "wishlist:list_created"
    /\ res.status = 201
    /\ Len(store.shopLists[1].participantIds) = 2
    /\ store.shopLists[1].id = emitted[1].payload.list.id
    /\ \E k \in DOMAIN store.users :
          /\ store.users[k].name \in {FallbackName(ph) : ph \in Phones}
          /\ store.users[k].shopListIds = <<store.shopLists[1].id>>

\* C32: no list of the store has an empty name
C32_NoEmptyName ==
    \A k \in DOMAIN store.shopLists : store.shopLists[k].name # << >>

(* ------------------------------ delete list --------------------------- *)
\* C33: a delete-list request of a user who is not the list's owner leaves the list,
\* its items, their reactions and their suggestions in the store
C33_OwnerOnlyDelete ==
    [][\A uid \in tokens, L \in IssuedIds("list") :
          (/\ loaded
           /\ ListIndex(store.shopLists, L) # 0
           /\ store.shopLists[ListIndex(store.shopLists, L)].ownerId # uid
           /\ DeleteList(uid, L)) =>
              /\ store'.shopLists = store.shopLists
              /\ store'.shopListItems = store.shopListItems
              /\ store'.reactions = store.reactions
              /\ store'.suggestions = store.suggestions]_vars

(* --------------------------------- boot ------------------------------- *)
\* C34: while the store is null the process has answered no request and has
\* handled no handshake since it booted
C34_NothingBeforeLoad ==
    ~loaded =>
        /\ res.status = 0
        /\ \A c \in Conns : sockets[c].state = "new"

(* ---------------------------- overlapping writes ---------------------- *)
\* C35: when the last of the writes in flight completes, store.json holds the text
\* of the write started last.  Stated for the completions before which no handler
\* has changed the store since that write was started (unsaved is empty): the
\* text it captured is then the store as it is.
C35_LastStartedWins ==
    [][(/\ WriteCompletes
        /\ writes' = << >>
        /\ unsaved = << >>) =>
            disk'.snapshot = JsonFile(Stringify(store))]_vars

(* ------------------------- events after a delete ---------------------- *)
\* C36: once a list has been deleted (its id was issued and it is not in shopLists:
\* list_deleted was published on its channel), no handler publishes on that channel
C36_SilentAfterDelete ==
    [][\A L \in IssuedIds("list") :
          (/\ loaded
           /\ ListIndex(store.shopLists, L) = 0
           /\ emitted' # emitted) =>
              \A k \in DOMAIN emitted' : emitted'[k].room # <<"list", L>>]_vars

\* C37: the step that creates a list publishes list_created once on the private
\* channel of the owner and of each added user, and on no channel twice
C37_ListCreatedOnce ==
    [][Len(store'.shopLists) > Len(store.shopLists) =>
          /\ \A u \in Range(store'.shopLists[1].participantIds) :
                \E k \in DOMAIN emitted' :
                    /\ emitted'[k].room = <<"user", u>>
                    /\ emitted'[k].event = "wishlist:list_created"
          /\ \A i, j \in DOMAIN emitted' :
                i # j => emitted'[i].room # emitted'[j].room]_vars

\* ItemCard: the counts the page shows for an item it holds
likeCount(it) ==
    IF it.likes # NoCount THEN it.likes
    ELSE Len(SelectSeq(it.reactions, LAMBDA r : r.kind = "LIKE"))
dislikeCount(it) ==
    IF it.dislikes # NoCount THEN it.dislikes
    ELSE Len(SelectSeq(it.reactions, LAMBDA r : r.kind = "DISLIKE"))

\* how often the item the page holds lists the suggestion sid
SuggestionCount(it, sid) ==
    Len(SelectSeq(it.suggestions, LAMBDA g : g.suggestion.id = sid))
\* the response or the broadcast of the suggestion sid has still to reach the page
AwaitsSuggestion(page, socks, sid) ==
    \/ page.calling.op = "addSuggestion"
    \/ \E k \in DOMAIN page.http :
          /\ page.http[k].call.op = "addSuggestion"
          /\ page.http[k].body.suggestion.id = sid
    \/ \E k \in (page.read + 1)..Len(socks[socketRef].inbox) :
          /\ socks[socketRef].inbox[k].event = "wishlist:item_suggested"
          /\ socks[socketRef].inbox[k].payload.suggestion.id = sid
\* the page is in the room of the list it shows
PageSubscribed ==
    /\ sockets[socketRef].state = "active"
    /\ client.activeListId # NoId
    /\ <<"list", client.activeListId>> \in sockets[socketRef].rooms
\* every request has been answered, and every response and event has reached the page
Quiescent ==
    /\ client.calling.op = "none"
    /\ client.http = << >>
    /\ client.read = Len(sockets[socketRef].inbox)

\* C38: when the page, in the room of the list, has handled both the response to its
\* addSuggestion and the item_suggested broadcast of that suggestion, the item it
\* holds lists the suggestion exactly once
C38_SuggestionOnce ==
    [][\A sid \in DOMAIN issued' :
          (/\ client' # client
           /\ issued'[sid] = "suggestion"
           /\ PageSubscribed
           /\ AwaitsSuggestion(client, sockets, sid)
           /\ ~AwaitsSuggestion(client', sockets', sid))
          => \A k \in DOMAIN client'.items :
                \A j \in DOMAIN store'.suggestions :
                    (/\ store'.suggestions[j].id = sid
                     /\ store'.suggestions[j].itemId = client'.items[k].item.id)
                    => SuggestionCount(client'.items[k], sid) = 1]_vars

\* the counts the page shows for each item it holds that is in the store are the
\* store's
CountsAgree(page, st) ==
    \A k \in DOMAIN page.items :
        ItemIndex(st.shopListItems, page.items[k].item.id) # 0 =>
            /\ likeCount(page.items[k]) =
                  CountKind(st.reactions, page.items[k].item.id, "LIKE")
            /\ dislikeCount(page.items[k]) =
                  CountKind(st.reactions, page.items[k].item.id, "DISLIKE")
\* the page handles the response to a toggleReaction, or an item_reacted event
HandlesReaction ==
    \/ \E k \in DOMAIN client.http :
          client.http[k].call.op = "toggleReaction" /\ Resolve(k)
    \/ /\ client.read < Len(sockets[socketRef].inbox)
       /\ sockets[socketRef].inbox[client.read + 1].event = "wishlist:item_reacted"
       /\ Receive

\* C39: when the page, in the room of the list it shows, has handled the last of the
\* toggle responses and item_reacted events on their way, in whatever order they
\* reached it, the counts it shows for each item are the store's
C39_CountsConverge ==
    [][(client' # client /\ PageSubscribed /\ Quiescent' /\ HandlesReaction)
          => CountsAgree(client', store')]_vars

\* C40: once the response of the items fetch and every item_added and item_removed
\* event have reached the page, the items it holds are the items of the list in the
\* store
C40_ItemsConverge ==
    (PageSubscribed /\ Quiescent) =>
        {client.items[k].item.id : k \in DOMAIN client.items} =
        {store.shopListItems[k].id :
            k \in {n \in DOMAIN store.shopListItems :
                      store.shopListItems[n].shopListId = client.activeListId}}
====
